---- MODULE Spec2Model ----
(***************************************************************************)
(* Teacher-data dashboard: upload ingestion (app.py process_uploaded_file), *)
(* the Nominatim geocoding client, the record normaliser (to_bool, to_int)  *)
(* and the flat-file batch geocoding script (geocode_existing_data.py).     *)
(***************************************************************************)
EXTENDS Integers, Sequences, FiniteSets, TLC

(***************************************************************************)
(* Text.  A Python str is a sequence of one-character strings.              *)
(***************************************************************************)
UpperLetters ==
    << "A","B","C","D","E","F","G","H","I","J","K","L","M",
       "N","O","P","Q","R","S","T","U","V","W","X","Y","Z" >>

LowerLetters ==
    << "a","b","c","d","e","f","g","h","i","j","k","l","m",
       "n","o","p","q","r","s","t","u","v","w","x","y","z" >>

DigitChars == << "0","1","2","3","4","5","6","7","8","9" >>

Whitespace == { " ", "\t", "\n", "\r" }

IsDigit(c) == \E i \in 1..10 : DigitChars[i] = c

DigitVal(c) == (CHOOSE i \in 1..10 : DigitChars[i] = c) - 1

\* str.lower(), one character
LowerChar(c) ==
    IF \E i \in 1..26 : UpperLetters[i] = c
    THEN LowerLetters[CHOOSE i \in 1..26 : UpperLetters[i] = c]
    ELSE c

\* str.lower()
Lower(s) == [i \in 1..Len(s) |-> LowerChar(s[i])]

\* str.strip(): drops the leading and the trailing whitespace
Strip(s) ==
    IF \A n \in 1..Len(s) : s[n] \in Whitespace THEN << >>
    ELSE SubSeq(s,
                CHOOSE lo \in 1..Len(s) :
                    s[lo] \notin Whitespace /\ \A j \in 1..(lo - 1) : s[j] \in Whitespace,
                CHOOSE hi \in 1..Len(s) :
                    s[hi] \notin Whitespace /\ \A j \in (hi + 1)..Len(s) : s[j] \in Whitespace)

\* str.endswith(suffix)
EndsWith(s, suffix) ==
    /\ Len(s) >= Len(suffix)
    /\ SubSeq(s, Len(s) - Len(suffix) + 1, Len(s)) = suffix

RECURSIVE NatToChars(_)
\* the decimal digits of a natural number
NatToChars(n) ==
    IF n < 10 THEN << DigitChars[n + 1] >>
    ELSE NatToChars(n \div 10) \o << DigitChars[(n % 10) + 1] >>

RECURSIVE CharsToNat(_)
\* the natural number a non-empty string of digits denotes
CharsToNat(s) ==
    IF Len(s) = 0 THEN 0
    ELSE 10 * CharsToNat(SubSeq(s, 1, Len(s) - 1)) + DigitVal(s[Len(s)])

AllDigits(s) == \A i \in 1..Len(s) : IsDigit(s[i])

RECURSIVE Pow10(_)
Pow10(n) == IF n = 0 THEN 1 ELSE 10 * Pow10(n - 1)

Abs(x) == IF x < 0 THEN -x ELSE x

(***************************************************************************)
(* Cells of a DataFrame and values of a database record.                    *)
(*   nan    NaN / None: the value pd.isna accepts                           *)
(*   bool   a Python or numpy bool                                          *)
(*   int    an integer                                                      *)
(*   float  a finite float with one decimal digit, t its value in tenths    *)
(*   str    a string                                                        *)
(***************************************************************************)
NaN == [k |-> "nan"]

None == [k |-> "nan"]

B(b) == [k |-> "bool", b |-> b]

I(n) == [k |-> "int", n |-> n]

F(t) == [k |-> "float", t |-> t]

S(s) == [k |-> "str", s |-> s]

\* pd.isna / pd.notna on a scalar
isna(val) == val.k = "nan"

notna(val) == ~isna(val)

\* str(val)
PyStr(val) ==
    CASE val.k = "str"   -> val.s
      [] val.k = "int"   -> (IF val.n < 0 THEN << "-" >> ELSE << >>) \o NatToChars(Abs(val.n))
      [] val.k = "float" -> (IF val.t < 0 THEN << "-" >> ELSE << >>)
                               \o NatToChars(Abs(val.t) \div 10) \o << "." >>
                               \o NatToChars(Abs(val.t) % 10)
      [] val.k = "bool"  -> IF val.b THEN << "T","r","u","e" >> ELSE << "F","a","l","s","e" >>
      [] OTHER           -> << "n","a","n" >>

(***************************************************************************)
(* float(val).  The result is                                              *)
(*   [k |-> "fin", m, d]  the finite number m / 10^d                        *)
(*   [k |-> "inf"], [k |-> "nan"]                                           *)
(*   [k |-> "err"]        ValueError                                        *)
(***************************************************************************)
Fin(m, d) == [k |-> "fin", m |-> m, d |-> d]

\* the position of the first character of s that is in cs, 0 when there is none
FirstIn(s, cs) ==
    IF \E i \in 1..Len(s) : s[i] \in cs
    THEN CHOOSE i \in 1..Len(s) : s[i] \in cs /\ \A j \in 1..(i - 1) : s[j] \notin cs
    ELSE 0

\* the number sign * mag * 10^(e - nfrac), e being the exponent's digits
\* (eNeg: with a minus sign) and nfrac the count of fraction digits
Scaled(sign, mag, nfrac, eNeg, e) ==
    IF eNeg THEN Fin(sign * mag, nfrac + e)
    ELSE IF e >= nfrac THEN Fin(sign * mag * Pow10(e - nfrac), 0)
    ELSE Fin(sign * mag, nfrac - e)

\* digits[.digits] with an exponent part (hasExp) of digits eDig
ParseParts(sign, ip, fp, hasExp, eNeg, eDig) ==
    IF /\ AllDigits(ip) /\ AllDigits(fp) /\ Len(ip) + Len(fp) > 0
       /\ (hasExp => (AllDigits(eDig) /\ Len(eDig) > 0))
    THEN Scaled(sign, CharsToNat(ip \o fp), Len(fp), eNeg, CharsToNat(eDig))
    ELSE [k |-> "err"]

\* the mantissa is split at its first point
ParseMantissa(sign, mant, dot, hasExp, eNeg, eDig) ==
    ParseParts(sign,
               IF dot = 0 THEN mant ELSE SubSeq(mant, 1, dot - 1),
               IF dot = 0 THEN << >> ELSE SubSeq(mant, dot + 1, Len(mant)),
               hasExp, eNeg, eDig)

\* the exponent's sign is taken off
ParseExponent(sign, mant, hasExp, expo) ==
    ParseMantissa(sign, mant, FirstIn(mant, {"."}), hasExp,
                  Len(expo) > 0 /\ expo[1] = "-",
                  IF Len(expo) > 0 /\ expo[1] \in {"+", "-"} THEN Tail(expo) ELSE expo)

\* the numeral is split at its first e or E
ParseNumeral(sign, body, ePos) ==
    ParseExponent(sign,
                  IF ePos = 0 THEN body ELSE SubSeq(body, 1, ePos - 1),
                  ePos # 0,
                  IF ePos = 0 THEN << >> ELSE SubSeq(body, ePos + 1, Len(body)))

\* the text after the sign: inf, infinity, nan in any case, or a numeral
ParseUnsigned(sign, body) ==
    IF Lower(body) \in { <<"i","n","f">>, <<"i","n","f","i","n","i","t","y">> }
    THEN [k |-> "inf"]
    ELSE IF Lower(body) = <<"n","a","n">> THEN [k |-> "nan"]
    ELSE ParseNumeral(sign, body, FirstIn(body, {"e", "E"}))

\* the stripped text: an optional sign, then the rest
ParseSigned(s) ==
    ParseUnsigned(IF Len(s) > 0 /\ s[1] = "-" THEN -1 ELSE 1,
                  IF Len(s) > 0 /\ s[1] \in {"+", "-"} THEN Tail(s) ELSE s)

\* float() of a string: [sign] (inf | infinity | nan | digits[.digits][e[sign]digits])
ParseFloat(chars) == ParseSigned(Strip(chars))

\* float(val)
PyFloat(val) ==
    CASE val.k = "str"   -> ParseFloat(val.s)
      [] val.k = "int"   -> Fin(val.n, 0)
      [] val.k = "float" -> Fin(val.t, 1)
      [] val.k = "bool"  -> Fin(IF val.b THEN 1 ELSE 0, 0)
      [] OTHER           -> [k |-> "nan"]

\* int(x) of a finite float: truncation toward zero
Trunc(x) == IF x.m >= 0 THEN x.m \div Pow10(x.d) ELSE -((-x.m) \div Pow10(x.d))

(***************************************************************************)
(* Helper functions for data conversion.                                    *)
(***************************************************************************)
Raised(exc) == [k |-> "raise", exc |-> exc]

TrueWords == { <<"y","e","s">>, <<"y">>, <<"t","r","u","e">>, <<"1">> }

YesWords == { <<"y","e","s">>, <<"y">>, <<"t","r","u","e">> }

NoWords == { <<"n","o">>, <<"n">>, <<"f","a","l","s","e">> }

\* a conversion with no unknown: a missing value gives False
to_bool_two_valued(val) ==
    IF isna(val) THEN B(FALSE) ELSE B(Lower(Strip(PyStr(val))) \in TrueWords)

\* to_bool(val)
to_bool(val) ==
    IF isna(val) THEN None
    ELSE IF val.k = "bool" THEN val
    ELSE B(Lower(Strip(PyStr(val))) \in TrueWords)

\* a handler with no word fallback: every parse failure gives None
to_int_except_unknown(val_str) == None

\* the except branch of to_int
to_int_except(val_str) ==
    IF Lower(val_str) \in YesWords THEN I(100)
    ELSE IF Lower(val_str) \in NoWords THEN I(0)
    ELSE None

\* int(x) for the float x = float(val), with the handler of to_int
to_int_try(val, x) ==
    CASE x.k = "fin" -> I(Trunc(x))
      [] x.k = "inf" -> Raised("OverflowError")
      [] OTHER       -> to_int_except(Strip(PyStr(val)))

\* to_int(val): int(float(val)); ValueError and TypeError are caught, the
\* OverflowError of int(inf) is not and leaves the function.
to_int(val) == IF isna(val) THEN None ELSE to_int_try(val, PyFloat(val))

(***************************************************************************)
(* Geocoding function.  A response of the external service is               *)
(*   [exc, status_code, json_ok, data]                                      *)
(* exc is the exception requests.get raised ("none": it returned), json_ok  *)
(* whether response.json() decodes, data the decoded list of result dicts   *)
(* (a dict is a function from its keys to cells).                           *)
(***************************************************************************)
NotFound == << None, None, None >>

\* dict.get(key, default)
DictGet(d, key, default) == IF key \in DOMAIN d THEN d[key] ELSE default

\* the float cell a parsed finite number is stored as (the service's lat and
\* lon are decimal numerals)
FloatCell(x) == F((x.m * 10) \div Pow10(x.d))

\* str(x) if pd.notna(x) else '', as the request parameters are built
ParamText(cell) == IF notna(cell) THEN PyStr(cell) ELSE << >>

\* the query parameters sent: the empty ones are removed
RequestParams(street, city, state, zip_code) ==
    LET params == [ street     |-> ParamText(street),
                    city       |-> ParamText(city),
                    state      |-> ParamText(state),
                    postalcode |-> ParamText(zip_code),
                    country    |-> << "U","S","A" >>,
                    format     |-> << "j","s","o","n" >>,
                    addressdetails |-> << "1" >>,
                    limit      |-> << "1" >> ]
    IN  { key \in DOMAIN params : params[key] # << >> }

\* the return statement of the try block: float(lat), float(lon) and the
\* display name of the first result
TryReturn(lat, lon, latF, lonF, display_name) ==
    IF isna(lat) THEN [exc |-> "TypeError", ret |-> NotFound]
    ELSE IF latF.k = "err" THEN [exc |-> "ValueError", ret |-> NotFound]
    ELSE IF isna(lon) THEN [exc |-> "TypeError", ret |-> NotFound]
    ELSE IF lonF.k = "err" THEN [exc |-> "ValueError", ret |-> NotFound]
    ELSE [exc |-> "none", ret |-> << FloatCell(latF), FloatCell(lonF), display_name >>]

\* result = data[0]
TryResult(res) ==
    TryReturn(DictGet(res, "lat", None), DictGet(res, "lon", None),
              PyFloat(DictGet(res, "lat", None)), PyFloat(DictGet(res, "lon", None)),
              DictGet(res, "display_name", S(<< >>)))

\* the try block of geocode_address: the exception that ends it ("none" when
\* it runs to its end or to its return) and the value it returns (NotFound
\* when it falls through to the final return)
TryBlock(response) ==
    IF response.exc # "none" THEN [exc |-> response.exc, ret |-> NotFound]
    ELSE IF response.status_code # 200 THEN [exc |-> "none", ret |-> NotFound]
    ELSE IF ~response.json_ok THEN [exc |-> "JSONDecodeError", ret |-> NotFound]
    ELSE IF Len(response.data) = 0 THEN [exc |-> "none", ret |-> NotFound]
    ELSE TryResult(response.data[1])

\* time.sleep(1) follows requests.get inside the try block: it runs exactly
\* when requests.get returned a response
SleptAfter(response) == response.exc = "none"

\* the classes "except Exception" catches
ExceptionSubclasses ==
    { "Timeout", "ConnectionError", "JSONDecodeError", "TypeError", "ValueError" }

\* a handler for the exceptions of requests alone
CaughtRequestsOnly(exc) == exc \in { "Timeout", "ConnectionError" }

\* "except Exception as e": whether the handler catches exc
Caught(exc) == exc \in ExceptionSubclasses

\* the except clause and the final return, for the outcome of the try block
AfterTry(params, response, body) ==
    [ params  |-> params,
      outcome |-> response,
      slept   |-> SleptAfter(response),
      raised  |-> body.exc # "none" /\ ~Caught(body.exc),
      ret     |-> IF body.exc = "none" THEN body.ret ELSE NotFound ]

\* one call of geocode_address: what it sent, whether it paused, whether an
\* exception left it, and what it returned
geocode_address(street, city, state, zip_code, response) ==
    AfterTry(RequestParams(street, city, state, zip_code), response, TryBlock(response))

(***************************************************************************)
(* DataFrames and records.  A DataFrame is [columns, rows]: rows is the     *)
(* sequence of its rows (index label idx is position idx + 1), each a       *)
(* function from the columns to cells.                                      *)
(***************************************************************************)
\* Series.get(col): None for a column the frame does not have
RowGet(row, col) == IF col \in DOMAIN row THEN row[col] ELSE None

\* df[col] = None for a column that does not exist yet
WithColumn(df, col) ==
    IF col \in df.columns THEN df
    ELSE [ columns |-> df.columns \cup {col},
           rows    |-> [n \in 1..Len(df.rows) |->
                          [c \in df.columns \cup {col} |->
                             IF c = col THEN None ELSE df.rows[n][c]]] ]

\* "Initialize geocoding columns if they don't exist"
WithGeoColumns(df) ==
    WithColumn(WithColumn(WithColumn(df, "Latitude"), "Longitude"), "Geocoded Address")

\* df.at[idx, col] = value
SetAt(df, idx, col, value) ==
    [df EXCEPT !.rows[idx + 1][col] = value]

\* a skip test satisfied by one coordinate
AlreadyGeocodedEither(row) ==
    notna(RowGet(row, "Latitude")) \/ notna(RowGet(row, "Longitude"))

\* the skip test inverted: rows with no coordinate are skipped instead
AlreadyGeocodedInverted(row) ==
    isna(RowGet(row, "Latitude")) /\ isna(RowGet(row, "Longitude"))

\* "Skip if already geocoded"
AlreadyGeocoded(row) ==
    notna(RowGet(row, "Latitude")) /\ notna(RowGet(row, "Longitude"))

\* a conversion that gives the empty text for a missing or absent cell
TextFieldEmpty(row, col) ==
    IF notna(RowGet(row, col)) THEN S(PyStr(row[col])) ELSE S(<< >>)

\* str(row[col]) if pd.notna(row.get(col)) else None
TextField(row, col) ==
    IF notna(RowGet(row, col)) THEN S(PyStr(row[col])) ELSE None

\* float(row[col]) if pd.notna(row.get(col)) else None
FloatOf(x) == IF x.k = "fin" THEN FloatCell(x) ELSE Raised("ValueError")

FloatField(row, col) ==
    IF notna(RowGet(row, col)) THEN FloatOf(PyFloat(row[col])) ELSE None

\* the record process_uploaded_file builds from a row
Record(row) ==
    [ year            |-> TextField(row, "Year"),
      first_name      |-> TextField(row, "First Name"),
      last_name       |-> TextField(row, "Last Name"),
      school_name     |-> TextField(row, "School Name"),
      school_district |-> TextField(row, "School District"),
      school_address  |-> TextField(row, "School Address"),
      city            |-> TextField(row, "City"),
      state           |-> TextField(row, "State"),
      zip             |-> TextField(row, "Zip"),
      county          |-> TextField(row, "County"),
      email           |-> TextField(row, "Email"),
      title_1         |-> to_bool(RowGet(row, "Title 1")),
      public_private  |-> TextField(row, "PublicPrivate"),
      students_receiving_free_reduced_lunch |->
                          to_int(RowGet(row, "Students Receiving Free_Reduced Lunch")),
      ell_students_in_class |-> to_bool(RowGet(row, "ELL Students in Class")),
      returning_teacher |-> to_bool(RowGet(row, "Returning Teacher")),
      total_students  |-> to_int(RowGet(row, "Total Students")),
      semester        |-> TextField(row, "Semester"),
      latitude        |-> FloatField(row, "Latitude"),
      longitude       |-> FloatField(row, "Longitude"),
      geocoded_address |-> TextField(row, "Geocoded Address") ]

\* whether building the record raises (an exception leaves a conversion)
Raises(record) == \E f \in DOMAIN record : record[f].k = "raise"

RecordRaises(row) == Raises(Record(row))

\* the records list built from the frame
Records(df) == [n \in 1..Len(df.rows) |-> Record(df.rows[n])]

\* "Upload to Supabase in batches"
batch_size == 100

Min(a, b) == IF a < b THEN a ELSE b

\* a slice that drops the last record of the sub-batch
SliceShort(recs, i) == SubSeq(recs, i + 1, Min(i + batch_size, Len(recs)) - 1)

\* records[i:i + batch_size]
Slice(recs, i) == SubSeq(recs, i + 1, Min(i + batch_size, Len(recs)))

\* the extension tests without their leading point
SupportedNameNoPoint(name) ==
    \/ EndsWith(name, << "c","s","v" >>)
    \/ EndsWith(name, << "x","l","s","x" >>)
    \/ EndsWith(name, << "x","l","s" >>)

\* uploaded_file.name.endswith('.csv') / .endswith(('.xlsx', '.xls'))
SupportedName(name) ==
    \/ EndsWith(name, << ".","c","s","v" >>)
    \/ EndsWith(name, << ".","x","l","s","x" >>)
    \/ EndsWith(name, << ".","x","l","s" >>)

(***************************************************************************)
(* Inputs: uploaded files and responses of the geocoding service.           *)
(***************************************************************************)
\* the most rows an uploaded file of the coordinate family holds
MaxRows == 1

\* the most runs of process_uploaded_file in one session
MaxUploads == 2

\* the rows of the large uploaded file: more than two sub-batches
LargeRows == 201

\* the rows of the long flat files: past the first checkpoint of the script
CsvRows == 51

ValidAddress ==
    ("School Address" :> S(<< "1"," ","M","a","i","n" >>)) @@ ("City" :> S(<< "T","r","o","y" >>))
    @@ ("State" :> S(<< "N","Y" >>)) @@ ("Zip" :> I(12180))

BlankAddress ==
    ("School Address" :> NaN) @@ ("City" :> NaN) @@ ("State" :> NaN) @@ ("Zip" :> NaN)

\* a row of a file that has no coordinate columns
PlainRow(address, lunch) ==
    address
    @@ ("Year" :> I(2024)) @@ ("First Name" :> S(<< "A","n","n" >>))
    @@ ("Last Name" :> S(<< "L","e","e" >>)) @@ ("School Name" :> S(<< "P","S","1" >>))
    @@ ("School District" :> NaN) @@ ("County" :> S(<< "K","i","n","g","s" >>))
    @@ ("Email" :> S(<< "a","@","b" >>)) @@ ("Title 1" :> S(<< "Y","e","s" >>))
    @@ ("PublicPrivate" :> S(<< "P","u","b","l","i","c" >>))
    @@ ("Students Receiving Free_Reduced Lunch" :> lunch)
    @@ ("ELL Students in Class" :> S(<< "N","o" >>)) @@ ("Returning Teacher" :> NaN)
    @@ ("Total Students" :> I(30)) @@ ("Semester" :> S(<< "F","a","l","l" >>))

\* a row of a file that has the coordinate columns
GeoRow(address, lat, lon) ==
    PlainRow(address, I(40))
    @@ ("Latitude" :> lat) @@ ("Longitude" :> lon)
    @@ ("Geocoded Address" :> IF notna(lat) /\ notna(lon) THEN S(<< "T","r","o","y" >>) ELSE NaN)

\* an already geocoded row whose flag columns hold the raw cell c
FlagRow(c) ==
    [GeoRow(ValidAddress, F(427), F(-737)) EXCEPT
        !["Title 1"] = c, !["ELL Students in Class"] = c, !["Returning Teacher"] = c]

\* an already geocoded row whose number columns hold the raw cell c
NumberRow(c) ==
    [GeoRow(ValidAddress, F(427), F(-737)) EXCEPT
        !["Students Receiving Free_Reduced Lunch"] = c, !["Total Students"] = c]

\* raw cells of the school-type column
SchoolTypeCells ==
    { S(<< "P","u","b","l","i","c" >>), S(<< "P","R","I","V","A","T","E" >>),
      S(<< "p","u","b","l","i","c"," ","s","c","h","o","o","l" >>),
      S(<< "C","h","a","r","t","e","r" >>), NaN }

\* an already geocoded row whose school-type column holds the raw cell c
SchoolTypeRow(c) ==
    [GeoRow(ValidAddress, F(427), F(-737)) EXCEPT !["PublicPrivate"] = c]

Lat0 == F(427)

Lon0 == F(-737)

\* rows arriving with both, one or no coordinate
CoordRows ==
    { GeoRow(ValidAddress, Lat0, Lon0), GeoRow(ValidAddress, Lat0, NaN),
      GeoRow(ValidAddress, NaN, Lon0), GeoRow(ValidAddress, NaN, NaN),
      GeoRow(BlankAddress, NaN, NaN) }

\* raw text cells of the flag and number columns
TextCells ==
    { << "y","e","s" >>, << "Y","E","S" >>, << "Y","e","s" >>, << "y" >>, << "Y" >>,
      << "t","r","u","e" >>, << "T","R","U","E" >>, << "T","r","u","e" >>, << "1" >>,
      << " ","y","e","s"," " >>, << "1"," " >>, << "n","o" >>, << "N","o" >>, << "n" >>,
      << "N" >>, << "f","a","l","s","e" >>, << "F","a","l","s","e" >>, << "0" >>,
      << "2" >>, << "1",".","0" >>, << "m","a","y","b","e" >>, << "y","e","s","!" >>,
      << >>, << " " >>,
      << "8","5",".","7" >>, << "8","5" >>, << "1","0","0" >>, << "1","5","0" >>,
      << "-","5" >>, << "-","0",".","7" >>, << "9","9",".","9" >>, << "+","7" >>,
      << ".","5" >>, << "5","." >>, << "." >>, << "1",".","5",".","2" >>,
      << "1","e","2" >>, << "1","5","e","-","1" >>, << "1","e" >>, << " ","4","2"," " >>,
      << "1","2","%" >>, << "N","/","A" >>, << "a","b","c" >>, << "-" >>,
      << "i","n","f" >>, << "-","I","n","f","i","n","i","t","y" >>, << "n","a","n" >> }

\* raw cells of the flag and number columns: text, numbers, booleans, missing
Cells ==
    { S(s) : s \in TextCells }
    \cup { I(1), I(0), I(85), I(150), I(-5), F(857), F(10), F(-7), F(999),
           B(TRUE), B(FALSE), NaN }

SeqsUpTo(set, n) == UNION { [1..m -> set] : m \in 0..n }

Frame(rows, columns) == [columns |-> columns, rows |-> rows]

GeoColumns == DOMAIN GeoRow(ValidAddress, NaN, NaN)

PlainColumns == DOMAIN PlainRow(ValidAddress, NaN)

\* the three-row file: already geocoded, blank address, valid address
ScenarioRows ==
    << GeoRow(ValidAddress, Lat0, Lon0), GeoRow(BlankAddress, NaN, NaN),
       GeoRow(ValidAddress, NaN, NaN) >>

\* row n of the large file: already geocoded, told apart by its count
LargeRow(n) == [GeoRow(ValidAddress, Lat0, Lon0) EXCEPT !["Total Students"] = I(n)]

LargeBatch == Frame([n \in 1..LargeRows |-> LargeRow(n)], GeoColumns)

\* a row of a file that has no column col
Without(row, col) == [c \in DOMAIN row \ {col} |-> row[c]]

\* two files with different columns: the first lacks County, the second Email
BatchA ==
    Frame(<< Without(LargeRow(1), "County"), Without(LargeRow(2), "County") >>,
          GeoColumns \ {"County"})

BatchB ==
    Frame(<< Without(LargeRow(3), "Email"), Without(LargeRow(4), "Email") >>,
          GeoColumns \ {"Email"})

\* the parsed contents of the uploaded files
Batches ==
    { Frame(rows, GeoColumns) : rows \in SeqsUpTo(CoordRows, MaxRows) }
    \cup { Frame(ScenarioRows, GeoColumns), LargeBatch, BatchA, BatchB }
    \cup { Frame(<< FlagRow(c) >>, GeoColumns) : c \in Cells }
    \cup { Frame(<< NumberRow(c) >>, GeoColumns) : c \in Cells }
    \cup { Frame(<< SchoolTypeRow(c) >>, GeoColumns) : c \in SchoolTypeCells }
    \cup { Frame(<< PlainRow(a, I(40)) >>, PlainColumns) : a \in {ValidAddress, BlankAddress} }

\* a long flat file, all rows geocoded but the row at position p
LongCsv(p) ==
    Frame([n \in 1..CsvRows |->
             IF n = p THEN GeoRow(ValidAddress, NaN, NaN) ELSE LargeRow(n)],
          GeoColumns)

\* the contents the flat file can have when the script is started
CsvFiles ==
    { Frame(rows, GeoColumns) : rows \in SeqsUpTo(CoordRows, MaxRows) }
    \cup { LongCsv(1), LongCsv(50) }
    \cup { Frame(ScenarioRows, GeoColumns),
           Frame(<< PlainRow(ValidAddress, I(40)), PlainRow(BlankAddress, I(40)) >>,
                 PlainColumns) }

FileNames ==
    { << "a",".","c","s","v" >>, << "a",".","x","l","s","x" >>, << "a",".","x","l","s" >> }

BadFileNames ==
    { << "a",".","t","x","t" >>, << "a",".","C","S","V" >>, << "c","s","v" >>,
      << "a",".","c","s","v",".","b","a","k" >> }

\* an uploaded file: its name, whether pd.read_csv / pd.read_excel can read
\* it, and the frame read
Files ==
    { [name |-> << "a",".","c","s","v" >>, readable |-> TRUE, data |-> d] : d \in Batches }
    \cup { [name |-> n, readable |-> r,
              data |-> Frame(<< GeoRow(ValidAddress, NaN, NaN) >>, GeoColumns)] :
             n \in FileNames \cup BadFileNames, r \in BOOLEAN }

Response(exc, status_code, json_ok, data) ==
    [exc |-> exc, status_code |-> status_code, json_ok |-> json_ok, data |-> data]

LatText == S(<< "4","0",".","7" >>)

LonText == S(<< "-","7","4",".","0" >>)

NameText == S(<< "N","Y","C" >>)

\* what the service can answer to one request
Responses ==
    { Response("Timeout", 0, FALSE, << >>),
      Response("ConnectionError", 0, FALSE, << >>),
      Response("none", 500, FALSE, << >>),
      Response("none", 200, FALSE, << >>),
      Response("none", 200, TRUE, << >>),
      Response("none", 200, TRUE, << ("lon" :> LonText) @@ ("display_name" :> NameText) >>),
      Response("none", 200, TRUE, << ("lat" :> LatText) @@ ("display_name" :> NameText) >>),
      Response("none", 200, TRUE, << ("lat" :> S(<< "x" >>)) @@ ("lon" :> LonText) >>),
      Response("none", 200, TRUE,
               << ("lat" :> LatText) @@ ("lon" :> LonText) @@ ("display_name" :> NameText) >>) }

(***************************************************************************)
(* load_data: the table as the dashboard shows it.                          *)
(***************************************************************************)
\* column_mapping: the column each field of the table is renamed to
column_mapping ==
    [ first_name |-> "First Name", last_name |-> "Last Name",
      school_name |-> "School Name", school_district |-> "School District",
      school_address |-> "School Address", city |-> "City", state |-> "State",
      zip |-> "Zip", county |-> "County", email |-> "Email", title_1 |-> "Title 1",
      public_private |-> "PublicPrivate",
      students_receiving_free_reduced_lunch |-> "Students Receiving Free_Reduced Lunch",
      ell_students_in_class |-> "ELL Students in Class",
      returning_teacher |-> "Returning Teacher", total_students |-> "Total Students",
      semester |-> "Semester", year |-> "Year", latitude |-> "Latitude",
      longitude |-> "Longitude", geocoded_address |-> "Geocoded Address" ]

\* the field each column of the loaded frame comes from
column_fields ==
    [col \in { column_mapping[f] : f \in DOMAIN column_mapping } |->
        CHOOSE f \in DOMAIN column_mapping : column_mapping[f] = col]

text_columns ==
    { "First Name", "Last Name", "School Name", "School District", "School Address",
      "City", "State", "Zip", "County", "Email", "Semester" }

Unknown == S(<< "U","n","k","n","o","w","n" >>)

\* a fill that leaves a null cell null
fillna_nothing(cell, value) == cell

\* Series.fillna(value) on one cell
fillna(cell, value) == IF isna(cell) THEN value ELSE cell

\* df.rename(columns=column_mapping) on one record of the table
Renamed(record) ==
    [col \in { column_mapping[f] : f \in DOMAIN record \cap DOMAIN column_mapping } |->
        record[column_fields[col]]]

\* the fillna statements of load_data on one renamed row
Filled(row) ==
    [col \in DOMAIN row |->
        IF col \in text_columns \cup {"PublicPrivate"} THEN fillna(row[col], Unknown)
        ELSE row[col]]

\* load_data(): select_ok tells whether the select returned; an empty table
\* and a select that raised both give an empty frame
load_data(table, select_ok) ==
    IF ~select_ok \/ Len(table) = 0 THEN Frame(<< >>, {})
    ELSE Frame([n \in 1..Len(table) |-> Filled(Renamed(table[n]))],
               { column_mapping[f] : f \in DOMAIN table[1] \cap DOMAIN column_mapping })

(***************************************************************************)
(* State.                                                                   *)
(***************************************************************************)
VARIABLES
    store,               \* the rows of table teacher_data, in insertion order
    pc,                  \* where the program is.  The dashboard: "gate", "entered"
                         \* (of check_password), "idle", "geocode", "insert",
                         \* "done" (of process_uploaded_file).  The script:
                         \* "main", "confirm", "loop", "exit", "crash".
                         \* upload_to_supabase: "upload_main", "upload",
                         \* "returned", "refused".
    session_state,       \* st.session_state as to the keys "password" and
                         \* "password_correct": the keys it has, and their values
    uploaded_file,       \* the file chosen in the uploader
    new_data,            \* the frame read from it, as geocoding fills it in
    idx,                 \* the index of the next row of the geocoding loop
    successful_geocodes, \* the loop's running success count
    records,             \* the records prepared for the store
    i,                   \* the offset of the next sub-batch to insert
    inserts,             \* the insert calls of this run, in order: the sub-batch
                         \* sent and whether the call succeeded
    result,              \* the value returned: "none" while running, TRUE, FALSE
    report,              \* what was shown: geocoded count, added count, error
    calls,               \* the geocode_address calls of this run, in order:
                         \* the row, whether the call paused, what it returned
    last_call,           \* the latest geocode_address call of the running loop,
                         \* in full
    pre_store,           \* the store as it was when this run began
    uploads,             \* the runs of process_uploaded_file so far
    cache_data,          \* the entry of st.cache_data for load_data: whether
                         \* there is one, and the frame it holds
    dashboard_df,        \* df of the page: what load_data returned to the
                         \* latest run of the page
    processing_complete, \* st.session_state.processing_complete
    returning_filter,    \* the option chosen in the radio "Teacher Status"
    filtered_df,         \* the frame the page computes its metrics and charts
                         \* from
    progress_bar,        \* the values the progress bar of the running call was
                         \* given, in order, from st.progress(0) on
    status_text,         \* the text the status line of the running call shows
    csv_file,            \* the flat file "Data for Glenwood Group.csv" on disk
    pre_csv,             \* the flat file as it was when the script began
    df,                  \* the frame the geocoding script holds in memory
    successful,          \* the script's count of rows skipped or geocoded
    failed,              \* the script's count of rows not found; in
                         \* upload_to_supabase, the records of the sub-batches
                         \* whose insert failed
    uploaded,            \* upload_to_supabase: the records of the sub-batches
                         \* inserted (its count of the records of the sub-batches
                         \* that failed is failed; its records, i and result are
                         \* records, i and result)
    other_run            \* a second run of the script on the same file, started
                         \* while the first runs: where it is (pc), its frame
                         \* (df), its loop index and its counts

vars ==
    << store, pc, uploaded_file, new_data, idx, successful_geocodes, records, i, inserts,
       result, report, calls, last_call, pre_store, uploads,
       cache_data, dashboard_df, processing_complete, returning_filter, filtered_df,
       progress_bar, status_text,
       csv_file, pre_csv, df, successful, failed, uploaded, other_run, session_state >>

\* the state of the geocoding script alone
scriptVars == << csv_file, pre_csv, df, successful, failed >>

\* the state of the dashboard alone
appVars ==
    << store, uploaded_file, new_data, successful_geocodes, records, i, inserts, result, report,
       pre_store, uploads,
       cache_data, dashboard_df, processing_complete, returning_filter, filtered_df,
       progress_bar, status_text >>

\* what the running call shows of its progress
barVars == << progress_bar, status_text >>

\* the state of the page around process_uploaded_file
pageVars ==
    << cache_data, dashboard_df, processing_complete, returning_filter, filtered_df >>

\* st.cache_data.clear()
NoCache == [valid |-> FALSE, value |-> Frame(<< >>, {})]

NoCall == [params |-> {}, outcome |-> Response("none", 0, FALSE, << >>), slept |-> FALSE,
           raised |-> FALSE, ret |-> NotFound]

EmptyFrame == Frame(<< >>, {})

NoFile == [name |-> << >>, readable |-> FALSE, data |-> EmptyFrame]

\* a value of the progress bar, as the quotient num / den
Fraction(num, den) == [num |-> num, den |-> den]

\* status_text = st.empty()
EmptyText == [text |-> "empty"]

\* f"Geocoding row {idx + 1} of {total_rows}..."
RowText(row, total_rows) == [text |-> "row", row |-> row, total |-> total_rows]

\* f"Geocoding complete! Successfully geocoded {successful_geocodes} of
\* {total_rows} addresses"
CompleteText(geocoded, total_rows) ==
    [text |-> "complete", geocoded |-> geocoded, total |-> total_rows]

\* no second run
NoRun == [pc |-> "none", df |-> EmptyFrame, idx |-> 0, successful |-> 0, failed |-> 0]

NoReport == [geocoded |-> -1, total |-> -1, added |-> -1, error |-> "none"]

\* the datasets the table holds when a session begins
ExistingDatasets == { << >>, << Record(GeoRow(ValidAddress, Lat0, Lon0)) >> }

\* a session of the dashboard is opened on a table, at the password gate, or
\* the script is started on a flat file
Init ==
    /\ \/ /\ pc = "gate"
          /\ store \in ExistingDatasets
          /\ csv_file = EmptyFrame
       \/ /\ pc = "main"
          /\ store = << >>
          /\ csv_file \in CsvFiles
    /\ pre_csv = csv_file
    /\ df = EmptyFrame
    /\ successful = 0
    /\ failed = 0
    /\ uploaded = 0
    /\ session_state = << >>
    /\ other_run = NoRun
    /\ uploaded_file = NoFile
    /\ new_data = EmptyFrame
    /\ idx = 0
    /\ successful_geocodes = 0
    /\ records = << >>
    /\ i = 0
    /\ inserts = << >>
    /\ result = "none"
    /\ report = NoReport
    /\ calls = << >>
    /\ last_call = NoCall
    /\ pre_store = store
    /\ uploads = 0
    /\ cache_data = NoCache
    /\ dashboard_df = EmptyFrame
    /\ processing_complete = FALSE
    /\ returning_filter = "All"
    /\ filtered_df = EmptyFrame
    /\ progress_bar = << >>
    /\ status_text = EmptyText

\* the password the page is configured with
ConfiguredPassword == << "M","a","r","i","s","s","a","N","a","l","l","e","y" >>

\* what a visitor can type in the password field
Passwords ==
    { ConfiguredPassword,
      << "m","a","r","i","s","s","a","n","a","l","l","e","y" >>,
      << "M","a","r","i","s","s","a","N","a","l","l","e","y"," " >>,
      << "M","a","r","i","s","s","a" >>, << "x" >> }

\* a session state without key k
Del(state, k) == [key \in DOMAIN state \ {k} |-> state[key]]

\* a callback that accepts whatever was entered
password_entered_any(state) == ("password_correct" :> TRUE) @@ Del(state, "password")

\* the callback password_entered on the session state
password_entered(state) ==
    IF "password" \in DOMAIN state /\ state["password"] = ConfiguredPassword
    THEN ("password_correct" :> TRUE) @@ Del(state, "password")
    ELSE ("password_correct" :> FALSE) @@ state

\* check_password(): st.session_state.get("password_correct", False)
check_password(state) == "password_correct" \in DOMAIN state /\ state["password_correct"]

\* a clear that leaves the entry in the cache
cache_kept(entry) == entry

\* st.cache_data.clear() on the entry of load_data
cache_clear(entry) == NoCache

\* a call of the cached load_data: the entry the cache holds after it (its
\* value is what the call returns)
cached_load(entry, table, select_ok) ==
    IF entry.valid THEN entry
    ELSE [valid |-> TRUE, value |-> load_data(table, select_ok)]

\* the options of the radio "Teacher Status"
returning_options == { "All", "Returning Only", "New Only" }

\* the filters of the page on one row, the multiselects left empty and the
\* slider on its whole range: between() keeps no row whose count is null,
\* the returning filter compares the flag with True or with False
Kept(row, option) ==
    /\ notna(row["Total Students"])
    /\ option = "Returning Only" => row["Returning Teacher"] = B(TRUE)
    /\ option = "New Only" => row["Returning Teacher"] = B(FALSE)

\* "Apply filters": filtered_df of a run of the page
ApplyFilters(frame, option) ==
    Frame(SelectSeq(frame.rows, LAMBDA row : Kept(row, option)), frame.columns)

\* df = load_data() at the top of a run of the page: the cached frame when
\* there is an entry, else the function runs and its result is cached
PageLoad(select_ok, option) ==
    /\ cache_data' = cached_load(cache_data, store, select_ok)
    /\ dashboard_df' = cached_load(cache_data, store, select_ok).value
    /\ returning_filter' = option
    /\ filtered_df' = ApplyFilters(cached_load(cache_data, store, select_ok).value, option)

\* the visitor submits a text in the password field the gate shows: the
\* widget puts it in the session state under its key
EnterPassword(text) ==
    /\ pc = "gate"
    /\ session_state' = ("password" :> text) @@ session_state
    /\ pc' = "entered"
    /\ UNCHANGED << appVars, scriptVars, idx, calls, last_call, uploaded, other_run >>

\* on_change: the callback runs, then the page: it stops at the gate again
\* unless check_password() returns True, and then runs to its end
PasswordEntered(select_ok) ==
    /\ pc = "entered"
    /\ session_state' = password_entered(session_state)
    /\ IF check_password(password_entered(session_state))
       THEN /\ pc' = "idle"
            /\ PageLoad(select_ok, returning_filter)
       ELSE /\ pc' = "gate"
            /\ UNCHANGED << cache_data, dashboard_df, returning_filter, filtered_df >>
    /\ UNCHANGED << store, uploaded_file, new_data, idx, successful_geocodes, records,
                    i, inserts, result, report, calls, last_call, pre_store, uploads,
                    processing_complete, barVars, scriptVars, uploaded, other_run >>

\* process_uploaded_file is called with a file: the file is read, the
\* geocoding columns are added, the loop is set up.  A session processes a
\* file and then, at most MaxUploads times in all, the same file again (or,
\* after the file that lacks County, the file that lacks Email); the large
\* file is processed once, on an empty table; files are processed with the
\* radio on "All".
Start(file, select_ok) ==
    /\ pc = "idle"
    /\ ~processing_complete
    /\ returning_filter = "All"
    /\ uploads < MaxUploads
    /\ uploads > 0 =>
          \/ file = uploaded_file
          \/ (uploaded_file.data = BatchA /\ file.data = BatchB /\ file.readable)
    /\ file.data = LargeBatch => (uploads = 0 /\ store = << >>)
    /\ PageLoad(select_ok, returning_filter)
    /\ UNCHANGED processing_complete
    /\ uploaded_file' = file
    /\ pre_store' = store
    /\ calls' = << >>
    /\ last_call' = NoCall
    /\ idx' = 0
    /\ successful_geocodes' = 0
    /\ records' = << >>
    /\ i' = 0
    /\ inserts' = << >>
    /\ IF ~SupportedName(file.name)
       THEN /\ pc' = "done"
            /\ result' = FALSE
            /\ report' = [NoReport EXCEPT !.error = "unsupported"]
            /\ new_data' = EmptyFrame
            /\ progress_bar' = << >>
       ELSE IF ~file.readable
       THEN /\ pc' = "done"
            /\ result' = FALSE
            /\ report' = [NoReport EXCEPT !.error = "exception"]
            /\ new_data' = EmptyFrame
            /\ progress_bar' = << >>
       ELSE /\ pc' = "geocode"
            /\ result' = "none"
            /\ report' = NoReport
            /\ new_data' = WithGeoColumns(file.data)
            /\ progress_bar' = << Fraction(0, 1) >>
    /\ status_text' = EmptyText
    /\ UNCHANGED << store, uploads,
                    scriptVars, uploaded, other_run, session_state >>

\* "Update progress", the first statements of an iteration
UpdateProgress ==
    /\ progress_bar' = Append(progress_bar, Fraction(idx + 1, Len(new_data.rows)))
    /\ status_text' = RowText(idx + 1, Len(new_data.rows))

\* one iteration of the geocoding loop on a row that has both coordinates
SkipRow ==
    /\ pc = "geocode"
    /\ idx < Len(new_data.rows)
    /\ UpdateProgress
    /\ AlreadyGeocoded(new_data.rows[idx + 1])
    /\ successful_geocodes' = successful_geocodes + 1
    /\ idx' = idx + 1
    /\ UNCHANGED << store, pc, uploaded_file, new_data, records, i, result, report,
                    calls, last_call, pre_store, uploads,
                    inserts, pageVars, scriptVars, uploaded, other_run, session_state >>

\* a test that takes every returned tuple for a found address
FoundAlways(ret) == ret = ret

\* "if lat is not None and lon is not None"
Found(ret) == notna(ret[1]) /\ notna(ret[2])

\* the row after the iteration: the three cells are set when the call found
\* the address
Geocoded(row, ret) ==
    IF Found(ret)
    THEN [row EXCEPT !["Latitude"] = ret[1], !["Longitude"] = ret[2],
                     !["Geocoded Address"] = ret[3]]
    ELSE row

\* the call geocode_address(street, city, state, zip_code) of a row
RowCall(row, response) ==
    geocode_address(RowGet(row, "School Address"), RowGet(row, "City"),
                    RowGet(row, "State"), RowGet(row, "Zip"), response)

\* the rest of the iteration, once geocode_address has acted
AfterCall(call) ==
    /\ calls' = Append(calls, [idx |-> idx, slept |-> call.slept, ret |-> call.ret])
    /\ last_call' = call
    /\ IF call.raised
       THEN /\ pc' = "done"
            /\ result' = FALSE
            /\ report' = [report EXCEPT !.error = "exception"]
            /\ UNCHANGED << new_data, successful_geocodes, idx >>
       ELSE /\ new_data' = [new_data EXCEPT
                              !.rows[idx + 1] = Geocoded(new_data.rows[idx + 1], call.ret)]
            /\ successful_geocodes' = successful_geocodes + (IF Found(call.ret) THEN 1 ELSE 0)
            /\ idx' = idx + 1
            /\ UNCHANGED << pc, result, report >>

\* one iteration of the geocoding loop on a row that lacks a coordinate
GeocodeRow(response) ==
    /\ pc = "geocode"
    /\ idx < Len(new_data.rows)
    /\ ~AlreadyGeocoded(new_data.rows[idx + 1])
    /\ UpdateProgress
    /\ AfterCall(RowCall(new_data.rows[idx + 1], response))
    /\ UNCHANGED << store, uploaded_file, records, i, pre_store, uploads,
                    inserts, pageVars, scriptVars, uploaded, other_run, session_state >>

\* the loop has ended: the count is shown and the records are prepared
PrepareRecords ==
    /\ pc = "geocode"
    /\ idx = Len(new_data.rows)
    /\ progress_bar' = Append(progress_bar, Fraction(1, 1))
    /\ status_text' = CompleteText(successful_geocodes, Len(new_data.rows))
    /\ IF \E n \in 1..Len(new_data.rows) : RecordRaises(new_data.rows[n])
       THEN /\ pc' = "done"
            /\ result' = FALSE
            /\ report' = [report EXCEPT !.geocoded = successful_geocodes,
                                        !.total = Len(new_data.rows),
                                        !.error = "exception"]
            /\ UNCHANGED records
       ELSE /\ pc' = "insert"
            /\ records' = Records(new_data)
            /\ report' = [report EXCEPT !.geocoded = successful_geocodes,
                                        !.total = Len(new_data.rows)]
            /\ UNCHANGED result
    /\ i' = 0
    /\ last_call' = NoCall
    /\ UNCHANGED << store, uploaded_file, new_data, idx, successful_geocodes, calls,
                    pre_store, uploads,
                    inserts, pageVars, scriptVars, uploaded, other_run, session_state >>

\* an insert loop whose stride is one more than the size of the sub-batch
InsertBatchSkipping ==
    /\ pc = "insert"
    /\ i < Len(records)
    /\ store' = store \o Slice(records, i)
    /\ i' = i + batch_size + 1
    /\ inserts' = Append(inserts, [batch |-> Slice(records, i), ok |-> TRUE])
    /\ UNCHANGED << pc, uploaded_file, new_data, idx, successful_geocodes, records,
                    result, report, calls, last_call, pre_store, uploads,
                    pageVars, barVars, scriptVars, uploaded, other_run, session_state >>

\* supabase.table('teacher_data').insert(batch).execute() of one sub-batch
InsertBatch ==
    /\ pc = "insert"
    /\ i < Len(records)
    /\ store' = store \o Slice(records, i)
    /\ i' = i + batch_size
    /\ inserts' = Append(inserts, [batch |-> Slice(records, i), ok |-> TRUE])
    /\ UNCHANGED << pc, uploaded_file, new_data, idx, successful_geocodes, records,
                    result, report, calls, last_call, pre_store, uploads,
                    pageVars, barVars, scriptVars, uploaded, other_run, session_state >>

\* a failing insert that undoes the sub-batches already inserted
InsertFailsRollback ==
    /\ pc = "insert"
    /\ i < Len(records)
    /\ pc' = "done"
    /\ result' = FALSE
    /\ report' = [report EXCEPT !.error = "exception"]
    /\ inserts' = Append(inserts, [batch |-> Slice(records, i), ok |-> FALSE])
    /\ store' = pre_store
    /\ UNCHANGED << uploaded_file, new_data, idx, successful_geocodes, records,
                    i, calls, last_call, pre_store, uploads,
                    pageVars, barVars, scriptVars, uploaded, other_run, session_state >>

\* the insert of a sub-batch raises: the function reports the error and
\* returns False
InsertFails ==
    /\ pc = "insert"
    /\ i < Len(records)
    /\ pc' = "done"
    /\ result' = FALSE
    /\ report' = [report EXCEPT !.error = "exception"]
    /\ inserts' = Append(inserts, [batch |-> Slice(records, i), ok |-> FALSE])
    /\ UNCHANGED << store, uploaded_file, new_data, idx, successful_geocodes, records,
                    i, calls, last_call, pre_store, uploads,
                    pageVars, barVars, scriptVars, uploaded, other_run, session_state >>

\* every sub-batch is in: the success message, return True
Succeed ==
    /\ pc = "insert"
    /\ i >= Len(records)
    /\ pc' = "done"
    /\ result' = TRUE
    /\ report' = [report EXCEPT !.added = Len(new_data.rows)]
    /\ UNCHANGED << store, uploaded_file, new_data, idx, successful_geocodes, records,
                    i, calls, last_call, pre_store, uploads,
                    inserts, pageVars, barVars, scriptVars, uploaded, other_run, session_state >>

\* a page that sets the flag, clears the cache and reruns whatever the call
\* returned
ReturnAlwaysComplete(select_ok) ==
    /\ pc = "done"
    /\ pc' = "idle"
    /\ uploads' = uploads + 1
    /\ new_data' = EmptyFrame
    /\ idx' = 0
    /\ successful_geocodes' = 0
    /\ records' = << >>
    /\ i' = 0
    /\ inserts' = << >>
    /\ result' = "none"
    /\ report' = NoReport
    /\ calls' = << >>
    /\ last_call' = NoCall
    /\ pre_store' = store
    /\ progress_bar' = << >>
    /\ status_text' = EmptyText
    /\ IF result \in BOOLEAN
       THEN /\ processing_complete' = TRUE
            /\ cache_data' = cached_load(cache_clear(cache_data), store, select_ok)
            /\ dashboard_df' = cached_load(cache_clear(cache_data), store, select_ok).value
            /\ filtered_df' =
                  ApplyFilters(cached_load(cache_clear(cache_data), store, select_ok).value,
                               returning_filter)
            /\ UNCHANGED returning_filter
       ELSE UNCHANGED pageVars
    /\ UNCHANGED << store, uploaded_file,
                    scriptVars, uploaded, other_run, session_state >>

\* the call has returned to the page.  After True the flag is set, the cache
\* is cleared and st.rerun() runs the page again, whose load_data() finds no
\* cache entry; after False the run of the page goes on with the df it has.
Return(select_ok) ==
    /\ pc = "done"
    /\ pc' = "idle"
    /\ uploads' = uploads + 1
    /\ new_data' = EmptyFrame
    /\ idx' = 0
    /\ successful_geocodes' = 0
    /\ records' = << >>
    /\ i' = 0
    /\ inserts' = << >>
    /\ result' = "none"
    /\ report' = NoReport
    /\ calls' = << >>
    /\ last_call' = NoCall
    /\ pre_store' = store
    /\ progress_bar' = << >>
    /\ status_text' = EmptyText
    /\ IF result = TRUE
       THEN /\ processing_complete' = TRUE
            /\ cache_data' = cached_load(cache_clear(cache_data), store, select_ok)
            /\ dashboard_df' = cached_load(cache_clear(cache_data), store, select_ok).value
            /\ filtered_df' =
                  ApplyFilters(cached_load(cache_clear(cache_data), store, select_ok).value,
                               returning_filter)
            /\ UNCHANGED returning_filter
       ELSE UNCHANGED pageVars
    /\ UNCHANGED << store, uploaded_file,
                    scriptVars, uploaded, other_run, session_state >>

\* "Calculate key metrics": len(filtered_df)
total_teachers == Len(filtered_df.rows)

\* int(filtered_df['Returning Teacher'].sum()): the sum skips the nulls
returning_teachers ==
    Cardinality({ n \in 1..Len(filtered_df.rows) :
                    filtered_df.rows[n]["Returning Teacher"] = B(TRUE) })

\* total_teachers - returning_teachers, the other value of the pie
new_teachers == total_teachers - returning_teachers

\* a run of the page that processes no file (a widget was changed)
Rerun(select_ok) ==
    /\ pc = "idle"
    /\ PageLoad(select_ok, returning_filter)
    /\ UNCHANGED << store, pc, uploaded_file, new_data, idx, successful_geocodes, records,
                    i, inserts, result, report, calls, last_call, pre_store, uploads,
                    processing_complete, barVars, scriptVars, uploaded, other_run, session_state >>

\* another option of the radio is chosen while the cache entry of load_data
\* is valid: the page runs again on the cached frame.  A session moves the
\* radio before its second upload.
TeacherStatus(option) ==
    /\ pc = "idle"
    /\ option # returning_filter
    /\ uploads <= 1
    /\ cache_data.valid
    /\ PageLoad(TRUE, option)
    /\ UNCHANGED << store, pc, uploaded_file, new_data, idx, successful_geocodes, records,
                    i, inserts, result, report, calls, last_call, pre_store, uploads,
                    processing_complete, barVars, scriptVars, uploaded, other_run, session_state >>

\* ttl=60: the cache entry of load_data expires
Expire ==
    /\ pc = "idle"
    /\ cache_data.valid
    /\ cache_data' = cache_clear(cache_data)
    /\ UNCHANGED << store, pc, uploaded_file, new_data, idx, successful_geocodes, records,
                    i, inserts, result, report, calls, last_call, pre_store, uploads,
                    dashboard_df, processing_complete, returning_filter, filtered_df, barVars, scriptVars, uploaded, other_run, session_state >>

\* the button "Upload Another File": the flag is reset and the page reruns
UploadAnother(select_ok) ==
    /\ pc = "idle"
    /\ processing_complete
    /\ processing_complete' = FALSE
    /\ PageLoad(select_ok, returning_filter)
    /\ UNCHANGED << store, pc, uploaded_file, new_data, idx, successful_geocodes, records,
                    i, inserts, result, report, calls, last_call, pre_store, uploads,
                    barVars, scriptVars, uploaded, other_run, session_state >>

(***************************************************************************)
(* The batch script: main of geocode_existing_data.py (geocode_csv of       *)
(* setup_supabase_database.py is the same loop).                            *)
(***************************************************************************)
\* "Save progress every 50 rows"
save_every == 50

\* df[df['Latitude'].isna()].shape[0]
NeedsGeocoding(frame) ==
    Cardinality({ n \in 1..Len(frame.rows) : isna(frame.rows[n]["Latitude"]) })

\* what the operator can type at the prompt
Answers == { << "y" >>, << "Y" >>, << "n" >>, << >> }

\* the file is read, the geocoding columns are added, the rows that need
\* geocoding are counted
Load ==
    /\ pc = "main"
    /\ df' = WithGeoColumns(csv_file)
    /\ pc' = IF NeedsGeocoding(WithGeoColumns(csv_file)) = 0 THEN "exit" ELSE "confirm"
    /\ UNCHANGED << appVars, uploaded, session_state, other_run, idx, calls, last_call, csv_file, pre_csv, successful, failed >>

\* the prompt: anything but y cancels
Confirm(user_input) ==
    /\ pc = "confirm"
    /\ pc' = IF Lower(user_input) # << "y" >> THEN "exit" ELSE "loop"
    /\ idx' = 0
    /\ successful' = 0
    /\ failed' = 0
    /\ UNCHANGED << appVars, uploaded, session_state, other_run, calls, last_call, csv_file, pre_csv, df >>

\* a skip that leaves the row out of the counts
ScriptSkipUncounted ==
    /\ pc = "loop"
    /\ idx < Len(df.rows)
    /\ AlreadyGeocoded(df.rows[idx + 1])
    /\ successful' = successful
    /\ idx' = idx + 1
    /\ UNCHANGED << appVars, uploaded, session_state, other_run, pc, calls, last_call, csv_file, pre_csv, df, failed >>

\* one iteration of the script's loop on a row that has both coordinates
ScriptSkip ==
    /\ pc = "loop"
    /\ idx < Len(df.rows)
    /\ AlreadyGeocoded(df.rows[idx + 1])
    /\ successful' = successful + 1
    /\ idx' = idx + 1
    /\ UNCHANGED << appVars, uploaded, session_state, other_run, pc, calls, last_call, csv_file, pre_csv, df, failed >>

\* the rest of the iteration, once geocode_address has acted, with the frame
\* as the iteration leaves it
ScriptAfterCall(call, frame) ==
    /\ calls' = Append(calls, [idx |-> idx, slept |-> call.slept, ret |-> call.ret])
    /\ last_call' = call
    /\ IF call.raised
       THEN /\ pc' = "crash"
            /\ UNCHANGED << df, successful, failed, idx, csv_file >>
       ELSE /\ df' = frame
            /\ successful' = successful + (IF Found(call.ret) THEN 1 ELSE 0)
            /\ failed' = failed + (IF Found(call.ret) THEN 0 ELSE 1)
            /\ csv_file' = IF (idx + 1) % save_every = 0 THEN frame ELSE csv_file
            /\ idx' = idx + 1
            /\ UNCHANGED pc

\* the frame after an iteration whose call returned ret
ScriptFrame(ret) ==
    [df EXCEPT !.rows[idx + 1] = Geocoded(df.rows[idx + 1], ret)]

\* one iteration of the script's loop on a row that lacks a coordinate
ScriptGeocode(response) ==
    /\ pc = "loop"
    /\ idx < Len(df.rows)
    /\ ~AlreadyGeocoded(df.rows[idx + 1])
    /\ ScriptAfterCall(RowCall(df.rows[idx + 1], response),
                       ScriptFrame(RowCall(df.rows[idx + 1], response).ret))
    /\ UNCHANGED << appVars, uploaded, session_state, other_run, pre_csv >>

\* a final save that writes only the rows the run changed, the other rows
\* of the file left as they are on disk
FinalSaveMerging ==
    /\ pc = "loop"
    /\ idx = Len(df.rows)
    /\ csv_file' = [df EXCEPT !.rows = [n \in 1..Len(df.rows) |->
                                          IF df.rows[n] # pre_csv.rows[n] THEN df.rows[n]
                                          ELSE csv_file.rows[n]]]
    /\ pc' = "exit"
    /\ UNCHANGED << appVars, uploaded, session_state, other_run, idx, calls, last_call, pre_csv, df, successful, failed >>

\* "Final save"
FinalSave ==
    /\ pc = "loop"
    /\ idx = Len(df.rows)
    /\ csv_file' = df
    /\ pc' = "exit"
    /\ UNCHANGED << appVars, uploaded, session_state, other_run, idx, calls, last_call, pre_csv, df, successful, failed >>

\* the second run reads the file, adds the geocoding columns, counts the
\* rows to geocode and asks for confirmation
OtherStart(user_input) ==
    /\ other_run.pc = "main"
    /\ other_run' =
          [pc |-> IF NeedsGeocoding(WithGeoColumns(csv_file)) = 0 THEN "exit"
                  ELSE IF Lower(user_input) # << "y" >> THEN "exit"
                  ELSE "loop",
           df |-> WithGeoColumns(csv_file), idx |-> 0, successful |-> 0, failed |-> 0]
    /\ UNCHANGED << appVars, uploaded, session_state, scriptVars, pc, idx, calls, last_call >>

\* the rest of an iteration of the second run, once geocode_address has
\* returned ret
OtherAfterCall(ret) ==
    /\ other_run' =
          [other_run EXCEPT
              !.df.rows[other_run.idx + 1] = Geocoded(@, ret),
              !.successful = @ + (IF Found(ret) THEN 1 ELSE 0),
              !.failed = @ + (IF Found(ret) THEN 0 ELSE 1),
              !.idx = @ + 1]
    /\ csv_file' =
          IF (other_run.idx + 1) % save_every = 0
          THEN [other_run.df EXCEPT !.rows[other_run.idx + 1] = Geocoded(@, ret)]
          ELSE csv_file

\* one iteration of the loop of the second run, checkpoint included
OtherIterate(response) ==
    /\ other_run.pc = "loop"
    /\ other_run.idx < Len(other_run.df.rows)
    /\ IF AlreadyGeocoded(other_run.df.rows[other_run.idx + 1])
       THEN /\ other_run' = [other_run EXCEPT !.idx = @ + 1, !.successful = @ + 1]
            /\ UNCHANGED csv_file
       ELSE OtherAfterCall(RowCall(other_run.df.rows[other_run.idx + 1], response).ret)
    /\ UNCHANGED << appVars, uploaded, session_state, pc, idx, calls, last_call, pre_csv, df, successful, failed >>

\* "Final save" of the second run
OtherFinalSave ==
    /\ other_run.pc = "loop"
    /\ other_run.idx = Len(other_run.df.rows)
    /\ csv_file' = other_run.df
    /\ other_run' = [other_run EXCEPT !.pc = "exit"]
    /\ UNCHANGED << appVars, uploaded, session_state, pc, idx, calls, last_call, pre_csv, df, successful, failed >>

(***************************************************************************)
(* upload_to_supabase.py: the flat file is read and its records are         *)
(* inserted in sub-batches.                                                 *)
(***************************************************************************)
\* the function up to its loop: the file is read, the credentials are
\* tested, the records are built (an exception of a conversion ends the
\* script)
UploadPrepare(credentials) ==
    /\ pc = "upload_main"
    /\ df' = csv_file
    /\ IF ~credentials
       THEN /\ pc' = "refused"
            /\ result' = FALSE
            /\ UNCHANGED records
       ELSE IF \E n \in 1..Len(csv_file.rows) : RecordRaises(csv_file.rows[n])
       THEN /\ pc' = "crash"
            /\ UNCHANGED << records, result >>
       ELSE /\ pc' = "upload"
            /\ records' = Records(csv_file)
            /\ UNCHANGED result
    /\ i' = 0
    /\ uploaded' = 0
    /\ failed' = 0
    /\ UNCHANGED << store, uploaded_file, new_data, idx, successful_geocodes, inserts,
                    report, calls, last_call, pre_store, uploads, pageVars, barVars,
                    csv_file, pre_csv, successful, other_run, session_state >>

\* a loop that ends at the first sub-batch whose insert fails
UploadBatchStopping(ok) ==
    /\ pc = "upload"
    /\ i < Len(records)
    /\ inserts' = Append(inserts, [batch |-> Slice(records, i), ok |-> ok])
    /\ store' = IF ok THEN store \o Slice(records, i) ELSE store
    /\ uploaded' = uploaded + (IF ok THEN Len(Slice(records, i)) ELSE 0)
    /\ failed' = failed + (IF ok THEN 0 ELSE Len(Slice(records, i)))
    /\ i' = IF ok THEN i + batch_size ELSE Len(records)
    /\ UNCHANGED << pc, uploaded_file, new_data, idx, successful_geocodes, records,
                    result, report, calls, last_call, pre_store, uploads, pageVars,
                    barVars, csv_file, pre_csv, df, successful, other_run, session_state >>

\* one iteration of "Upload in batches": the insert of the sub-batch returns
\* (ok) or raises
UploadBatch(ok) ==
    /\ pc = "upload"
    /\ i < Len(records)
    /\ inserts' = Append(inserts, [batch |-> Slice(records, i), ok |-> ok])
    /\ store' = IF ok THEN store \o Slice(records, i) ELSE store
    /\ uploaded' = uploaded + (IF ok THEN Len(Slice(records, i)) ELSE 0)
    /\ failed' = failed + (IF ok THEN 0 ELSE Len(Slice(records, i)))
    /\ i' = i + batch_size
    /\ UNCHANGED << pc, uploaded_file, new_data, idx, successful_geocodes, records,
                    result, report, calls, last_call, pre_store, uploads, pageVars,
                    barVars, csv_file, pre_csv, df, successful, other_run, session_state >>

\* the loop has ended: "return failed == 0"
UploadReturn ==
    /\ pc = "upload"
    /\ i >= Len(records)
    /\ pc' = "returned"
    /\ result' = (failed = 0)
    /\ UNCHANGED << store, uploaded_file, new_data, idx, successful_geocodes, records, i,
                    inserts, report, calls, last_call, pre_store, uploads, pageVars,
                    barVars, scriptVars, uploaded, other_run, session_state >>

Next ==
    \/ \E text \in Passwords : EnterPassword(text)
    \/ \E select_ok \in BOOLEAN : PasswordEntered(select_ok)
    \/ \E file \in Files, select_ok \in BOOLEAN : Start(file, select_ok)
    \/ SkipRow
    \/ \E response \in Responses : GeocodeRow(response)
    \/ PrepareRecords
    \/ InsertBatch
    \/ InsertFails
    \/ Succeed
    \/ \E select_ok \in BOOLEAN : Return(select_ok)
    \/ \E select_ok \in BOOLEAN : Rerun(select_ok)
    \/ \E option \in returning_options : TeacherStatus(option)
    \/ Expire
    \/ \E select_ok \in BOOLEAN : UploadAnother(select_ok)
    \/ Load
    \/ \E user_input \in Answers : Confirm(user_input)
    \/ ScriptSkip
    \/ \E response \in Responses : ScriptGeocode(response)
    \/ FinalSave

Spec == Init /\ [][Next]_vars

\* two runs of the script are started on the same flat file: one of the
\* short files, or a file of two rows that both lack coordinates
InitRuns ==
    /\ pc = "main"
    /\ store = << >>
    /\ csv_file \in
          { f \in CsvFiles : Len(f.rows) < save_every }
          \cup { Frame(<< GeoRow(ValidAddress, NaN, NaN), GeoRow(ValidAddress, NaN, NaN) >>,
                       GeoColumns) }
    /\ pre_csv = csv_file
    /\ df = EmptyFrame
    /\ successful = 0
    /\ failed = 0
    /\ uploaded = 0
    /\ session_state = << >>
    /\ other_run = [NoRun EXCEPT !.pc = "main"]
    /\ uploaded_file = NoFile
    /\ new_data = EmptyFrame
    /\ idx = 0
    /\ successful_geocodes = 0
    /\ records = << >>
    /\ i = 0
    /\ inserts = << >>
    /\ result = "none"
    /\ report = NoReport
    /\ calls = << >>
    /\ last_call = NoCall
    /\ pre_store = store
    /\ uploads = 0
    /\ cache_data = NoCache
    /\ dashboard_df = EmptyFrame
    /\ processing_complete = FALSE
    /\ returning_filter = "All"
    /\ filtered_df = EmptyFrame
    /\ progress_bar = << >>
    /\ status_text = EmptyText

\* the steps of the two runs, in any interleaving
NextRuns ==
    \/ Load
    \/ \E user_input \in Answers : Confirm(user_input)
    \/ ScriptSkip
    \/ \E response \in Responses : ScriptGeocode(response)
    \/ FinalSave
    \/ \E user_input \in Answers : OtherStart(user_input)
    \/ \E response \in Responses : OtherIterate(response)
    \/ OtherFinalSave

SpecRuns == InitRuns /\ [][NextRuns]_vars

\* upload_to_supabase is started on a flat file: one of the files of the
\* geocoding script, or the first rows of the large file, up to and around
\* the sizes of one and of two sub-batches
InitUpload ==
    /\ pc = "upload_main"
    /\ store \in ExistingDatasets
    /\ csv_file \in
          CsvFiles
          \cup { Frame(SubSeq(LargeBatch.rows, 1, n), GeoColumns) :
                   n \in { batch_size - 1, batch_size, batch_size + 1,
                           2 * batch_size, LargeRows } }
          \cup { Frame(<< NumberRow(c) >>, GeoColumns) :
                   c \in { S(<< "i","n","f" >>), S(<< "N","/","A" >>) } }
    /\ pre_csv = csv_file
    /\ df = EmptyFrame
    /\ successful = 0
    /\ failed = 0
    /\ uploaded = 0
    /\ session_state = << >>
    /\ other_run = NoRun
    /\ uploaded_file = NoFile
    /\ new_data = EmptyFrame
    /\ idx = 0
    /\ successful_geocodes = 0
    /\ records = << >>
    /\ i = 0
    /\ inserts = << >>
    /\ result = "none"
    /\ report = NoReport
    /\ calls = << >>
    /\ last_call = NoCall
    /\ pre_store = store
    /\ uploads = 0
    /\ cache_data = NoCache
    /\ dashboard_df = EmptyFrame
    /\ processing_complete = FALSE
    /\ returning_filter = "All"
    /\ filtered_df = EmptyFrame
    /\ progress_bar = << >>
    /\ status_text = EmptyText

NextUpload ==
    \/ \E credentials \in BOOLEAN : UploadPrepare(credentials)
    \/ \E ok \in BOOLEAN : UploadBatch(ok)
    \/ UploadReturn

SpecUpload == InitUpload /\ [][NextUpload]_vars

(***************************************************************************)
(* Properties.                                                              *)
(***************************************************************************)
\* the rows of the uploaded file, once it has been read
UploadedRows == uploaded_file.data.rows

\* process_uploaded_file has read the file and is in, or past, its loop
Reading == pc \in {"geocode", "insert"} \/ (pc = "done" /\ new_data # EmptyFrame)

\* the script has loaded the file
Loaded == pc \in {"confirm", "loop", "exit", "crash"}

\* a row arrives with both coordinates
HasBoth(row) == RowGet(row, "Latitude").k # "nan" /\ RowGet(row, "Longitude").k # "nan"

\* geocode_address was invoked for the row of index n
Invoked(n) == \E c \in 1..Len(calls) : calls[c].idx = n

\* the coordinates of row n of frame are those of row n of original
SameCoordinates(frame, original, n) ==
    /\ frame.rows[n]["Latitude"] = original.rows[n]["Latitude"]
    /\ frame.rows[n]["Longitude"] = original.rows[n]["Longitude"]

\* C1: during ingestion, in the dashboard and in the batch script, a row that
\* arrives with both Latitude and Longitude is never handed to the geocoder
\* and keeps the coordinates it arrived with (in the frame, and in the record
\* built from it).
C1_PreGeocodedRowsUntouched ==
    /\ Reading =>
         \A n \in 1..Len(UploadedRows) :
            HasBoth(UploadedRows[n]) =>
               /\ ~Invoked(n - 1)
               /\ SameCoordinates(new_data, uploaded_file.data, n)
               /\ records # << >> =>
                     /\ records[n].latitude = UploadedRows[n]["Latitude"]
                     /\ records[n].longitude = UploadedRows[n]["Longitude"]
    /\ Loaded =>
         \A n \in 1..Len(pre_csv.rows) :
            HasBoth(pre_csv.rows[n]) =>
               /\ ~Invoked(n - 1)
               /\ SameCoordinates(df, pre_csv, n)
               /\ SameCoordinates(csv_file, pre_csv, n)

\* a run is past its loop, having skipped a row that had both coordinates and
\* having geocoded another
C1_Witness ==
    /\ pc = "insert"
    /\ Len(calls) > 0
    /\ \E n \in 1..Len(UploadedRows) : HasBoth(UploadedRows[n])

\* the request failed, or its answer holds no usable result
FailureOutcome(o) ==
    \/ o.exc # "none"
    \/ o.status_code # 200
    \/ ~o.json_ok
    \/ Len(o.data) = 0
    \/ (Len(o.data) > 0 /\ ("lat" \notin DOMAIN o.data[1] \/ "lon" \notin DOMAIN o.data[1]))

\* C2: geocode_address never raises to its caller; on a timeout, a transport
\* failure, a non-200 status, an empty result list or a result lacking lat or
\* lon it returns (None, None, None); it returns a coordinate pair only for a
\* 200 response with a non-empty result list.
C2_GeocodeNeverRaises ==
    Len(calls) > 0 =>
       /\ ~last_call.raised
       /\ pc # "crash"
       /\ FailureOutcome(last_call.outcome) => last_call.ret = << None, None, None >>
       /\ last_call.ret # << None, None, None >> =>
             /\ last_call.outcome.exc = "none"
             /\ last_call.outcome.status_code = 200
             /\ Len(last_call.outcome.data) > 0
             /\ last_call.ret[1].k = "float"
             /\ last_call.ret[2].k = "float"
       /\ \A c \in 1..Len(calls) :
             calls[c].ret = << None, None, None >>
             \/ (calls[c].ret[1].k = "float" /\ calls[c].ret[2].k = "float")

\* a call whose result dict lacks lat has returned not-found to the loop, and
\* the loop goes on
C2_Witness ==
    /\ pc = "geocode"
    /\ Len(calls) > 0
    /\ last_call.outcome.exc = "none"
    /\ last_call.outcome.status_code = 200
    /\ Len(last_call.outcome.data) > 0
    /\ "lat" \notin DOMAIN last_call.outcome.data[1]
    /\ last_call.ret = << None, None, None >>

\* C3: geocode_address pauses one second after every request completes,
\* success or failure, before it returns (so a pause separates any two
\* consecutive requests of a run).
C3_PauseAfterEveryRequest ==
    \A c \in 1..Len(calls) : calls[c].slept

\* the rows the run appended to the store
Appended == SubSeq(store, Len(pre_store) + 1, Len(store))

\* the fields of a record that geocoding does not set
PlainFields == DOMAIN Record(GeoRow(ValidAddress, NaN, NaN))
                  \ {"latitude", "longitude", "geocoded_address"}

\* C4: after an ingest that reports success the store is the pre-existing
\* store followed by exactly the rows of the batch: its size is the old size
\* plus the batch's, the old rows are an unchanged prefix, and row n of the
\* appended ones is the record of row n of the batch (every field the record
\* of the frame's row; every field but the geocoded ones the record of the
\* row as uploaded).
C4_AppendExactlyTheBatch ==
    (pc = "done" /\ result = TRUE) =>
       /\ Len(store) = Len(pre_store) + Len(UploadedRows)
       /\ SubSeq(store, 1, Len(pre_store)) = pre_store
       /\ \A n \in 1..Len(UploadedRows) :
             /\ Appended[n] = Record(new_data.rows[n])
             /\ \A f \in PlainFields : Appended[n][f] = Record(UploadedRows[n])[f]

\* the three-row file has been ingested a second time, with the same
\* answers of the geocoder: its three records are in the store twice
C4_Witness ==
    /\ pc = "done"
    /\ result = TRUE
    /\ uploads = 1
    /\ Len(UploadedRows) = 3
    /\ Len(pre_store) >= 3
    /\ Appended = SubSeq(pre_store, Len(pre_store) - 2, Len(pre_store))

\* the position of the last point of a name, 0 when it has none
LastPoint(name) ==
    IF \E n \in 1..Len(name) : name[n] = "."
    THEN CHOOSE n \in 1..Len(name) :
            name[n] = "." /\ \A m \in (n + 1)..Len(name) : name[m] # "."
    ELSE 0

\* the extension of a file name, from its last point on
Extension(name) ==
    IF LastPoint(name) = 0 THEN << >> ELSE SubSeq(name, LastPoint(name), Len(name))

UnsupportedExtension(name) ==
    Extension(name) \notin
       { << ".","c","s","v" >>, << ".","x","l","s","x" >>, << ".","x","l","s" >> }

\* C5: for a file whose name has an extension other than .csv, .xlsx, .xls
\* ingestion fails as an unsupported format before any processing: the loop
\* and the inserts are never entered, no geocoder call is made, no record is
\* prepared, and the store is what it was.
C5_UnsupportedFormatRejected ==
    (pc # "idle" /\ uploaded_file # NoFile /\ UnsupportedExtension(uploaded_file.name)) =>
       /\ pc = "done"
       /\ result = FALSE
       /\ report.error = "unsupported"
       /\ calls = << >>
       /\ records = << >>
       /\ new_data = EmptyFrame
       /\ store = pre_store

\* a .txt file was refused while the table held a row
C5_Witness ==
    /\ pc = "done"
    /\ uploaded_file.name = << "a",".","t","x","t" >>
    /\ uploaded_file.readable
    /\ result = FALSE
    /\ Len(store) > 0

\* the text of a present cell, lower-cased
LowerText(c) == Lower(PyStr(c))

\* the text of a present cell, surrounding whitespace removed, lower-cased
TrimmedText(c) == Lower(Strip(PyStr(c)))

\* the columns of the boolean-like fields, and the fields they feed
FlagColumns == { << "Title 1", "title_1" >>,
                 << "ELL Students in Class", "ell_students_in_class" >>,
                 << "Returning Teacher", "returning_teacher" >> }

\* the flag stored for raw cell c is v, with words matched against text
TriState(c, v, text) ==
    /\ v \in { B(TRUE), B(FALSE), None }
    /\ (v = None) <=> (c.k = "nan")
    /\ c.k = "bool" => v = c
    /\ c.k \in {"str", "int", "float"} => (v = B(TRUE) <=> text \in TrueWords)

\* C6 (amended): a boolean-like field is true for a present value that,
\* once surrounding whitespace is removed, matches yes/y/true/1 ignoring
\* case; false for any other present value; None, never false, for a
\* missing value.
C6_TriStateAfterTrim ==
    records # << >> =>
       \A n \in 1..Len(records) : \A fc \in FlagColumns :
          TriState(UploadedRows[n][fc[1]], records[n][fc[2]],
                   IF UploadedRows[n][fc[1]].k = "nan" THEN << >>
                   ELSE TrimmedText(UploadedRows[n][fc[1]]))

\* C6 as stated: a boolean-like field is true for a present value matching
\* yes/y/true/1 ignoring case, false for any other present value, None for a
\* missing value.
C6_TriStateAsStated ==
    records # << >> =>
       \A n \in 1..Len(records) : \A fc \in FlagColumns :
          TriState(UploadedRows[n][fc[1]], records[n][fc[2]],
                   IF UploadedRows[n][fc[1]].k = "nan" THEN << >>
                   ELSE LowerText(UploadedRows[n][fc[1]]))

\* a file whose flag cells read " yes " has been stored with the flag true
C6_Witness ==
    /\ pc = "done"
    /\ result = TRUE
    /\ Len(UploadedRows) = 1
    /\ UploadedRows[1]["Title 1"] = S(<< " ","y","e","s"," " >>)
    /\ store[Len(store)].title_1 = B(TRUE)

LunchColumn == "Students Receiving Free_Reduced Lunch"

LunchField == "students_receiving_free_reduced_lunch"

\* the number stored for a raw cell that parsed as the finite float x
Truncated(x) == I(IF x.m >= 0 THEN x.m \div Pow10(x.d) ELSE -((-x.m) \div Pow10(x.d)))

\* the percent stored for raw cell c is v; words says whether the words of
\* yes and no stand for 100 and 0
LunchNormalized(c, x, v, words) ==
    /\ c.k = "nan" => v = None
    /\ (c.k # "nan" /\ x.k = "fin") => v = Truncated(x)
    /\ (c.k # "nan" /\ x.k \in {"err", "nan"}) =>
          IF words /\ TrimmedText(c) \in YesWords THEN v = I(100)
          ELSE IF words /\ TrimmedText(c) \in NoWords THEN v = I(0)
          ELSE v = None

C8_CoordinatesBothOrNeither ==
    \A n \in 1..Len(store) :
       (store[n].latitude.k = "nan") <=> (store[n].longitude.k = "nan")

\* C9: in every persisted record the percent-lunch value, when present, is
\* an integer in [0,100].
C9_LunchWithinPercentRange ==
    \A n \in 1..Len(store) :
       \/ store[n][LunchField] = None
       \/ /\ store[n][LunchField].k = "int"
          /\ store[n][LunchField].n >= 0
          /\ store[n][LunchField].n <= 100

\* the rows of the batch that arrived with both coordinates
SkipSuccesses == { n \in 1..Len(UploadedRows) : HasBoth(UploadedRows[n]) }

\* the calls of the run for which the geocoder returned a coordinate pair
NewSuccesses == { c \in 1..Len(calls) : calls[c].ret[1].k # "nan" /\ calls[c].ret[2].k # "nan" }

\* C10: the reported geocoded count is the number of rows that arrived with
\* both coordinates plus the number of rows for which the geocoder returned
\* a pair (not-found rows are not counted), and the reported added count is
\* the number of rows of the batch; rows [pre-geocoded, blank address not
\* found, valid address found] give 2 and 3.
C10_ReportedCounts ==
    /\ (Reading /\ report.geocoded # -1) =>
          /\ report.geocoded = Cardinality(SkipSuccesses) + Cardinality(NewSuccesses)
          /\ report.total = Len(UploadedRows)
    /\ (pc = "done" /\ result = TRUE) => report.added = Len(UploadedRows)
    /\ (pc = "done" /\ result = TRUE /\ UploadedRows = ScenarioRows
        /\ Len(calls) = 2 /\ calls[1].ret = << None, None, None >>
        /\ calls[2].ret # << None, None, None >>) =>
          (report.geocoded = 2 /\ report.added = 3)

\* the three-row batch was ingested: its first row skipped, its second not
\* found, its third found
C10_Witness ==
    /\ pc = "done"
    /\ result = TRUE
    /\ UploadedRows = ScenarioRows
    /\ Len(calls) = 2
    /\ calls[1].ret = << None, None, None >>
    /\ calls[2].ret # << None, None, None >>
    /\ report.geocoded = 2
    /\ report.added = 3

\* the calls of the run for which the geocoder returned not-found
FailedCalls == { c \in 1..Len(calls) : calls[c].ret = << None, None, None >> }

\* C11: a geocoding failure on a row never aborts the batch: the loop goes
\* on with the following rows, and every row of the batch is persisted, each
\* row whose geocoding returned not-found with absent coordinates.
C11_FailedRowsPersistWithoutCoordinates ==
    /\ (Reading /\ pc # "done" /\ Len(calls) > 0) => ~last_call.raised
    /\ (pc = "done" /\ result = TRUE) =>
          /\ Len(Appended) = Len(UploadedRows)
          /\ \A c \in FailedCalls :
                /\ Appended[calls[c].idx + 1].latitude = None
                /\ Appended[calls[c].idx + 1].longitude = None

\* the insert calls of the run that failed
FailedInserts == { k \in 1..Len(inserts) : ~inserts[k].ok }

\* C12: when the insert of a sub-batch fails, process_uploaded_file returns
\* False; the failed insert is the last call made (it is not retried and no
\* later sub-batch is attempted), and the sub-batches inserted before it stay
\* in the store.
C12_InsertFailureStopsWithoutRollback ==
    \A k \in FailedInserts :
       /\ k = Len(inserts)
       /\ pc = "done"
       /\ result = FALSE
       /\ report.error = "exception"
       /\ i = (k - 1) * batch_size
       /\ inserts[k].batch = SubSeq(records, i + 1, Min(i + batch_size, Len(records)))
       /\ \A j \in 1..(k - 1) : inserts[j].ok
       /\ store = pre_store \o SubSeq(records, 1, (k - 1) * batch_size)

\* the third sub-batch of the large file failed: the first two stay stored
C12_Witness ==
    /\ pc = "done"
    /\ result = FALSE
    /\ Len(inserts) = 3
    /\ ~inserts[3].ok
    /\ Len(store) = Len(pre_store) + 2 * batch_size

\* text has the word at position p
HasAt(text, word, p) == SubSeq(text, p, p + Len(word) - 1) = word

\* text contains the word
Contains(text, word) == \E p \in 1..(Len(text) - Len(word) + 1) : HasAt(text, word, p)

PublicLabel == S(<< "P","u","b","l","i","c" >>)

PrivateLabel == S(<< "P","r","i","v","a","t","e" >>)

OtherLabel == S(<< "O","t","h","e","r" >>)

UnknownLabel == S(<< "U","n","k","n","o","w","n" >>)

\* the school type the claim gives a raw cell
SchoolType(c) ==
    IF c.k = "nan" THEN UnknownLabel
    ELSE IF Contains(LowerText(c), << "p","u","b","l","i","c" >>) THEN PublicLabel
    ELSE IF Contains(LowerText(c), << "p","r","i","v","a","t","e" >>) THEN PrivateLabel
    ELSE OtherLabel

\* the school type the dashboard shows for a stored record
ShownSchoolType(record) ==
    IF record.public_private.k = "nan" THEN UnknownLabel ELSE record.public_private

\* C13: the school type is classified by case-insensitive substring match: a
\* value containing "public" becomes Public, otherwise one containing
\* "private" becomes Private, any other present value Other, a missing value
\* Unknown; every record's school type is one of the four.
C13_SchoolTypeClassified ==
    /\ records # << >> =>
          \A n \in 1..Len(records) :
             ShownSchoolType(records[n]) = SchoolType(UploadedRows[n]["PublicPrivate"])
    /\ \A n \in 1..Len(dashboard_df.rows) :
          dashboard_df.rows[n]["PublicPrivate"]
             \in { PublicLabel, PrivateLabel, OtherLabel, UnknownLabel }

\* the free-text fields: the field of the table and the column shown
FreeTextFields ==
    { << "first_name", "First Name" >>, << "last_name", "Last Name" >>,
      << "school_name", "School Name" >>, << "school_district", "School District" >>,
      << "school_address", "School Address" >>, << "city", "City" >>,
      << "state", "State" >>, << "zip", "Zip" >>, << "county", "County" >>,
      << "email", "Email" >>, << "semester", "Semester" >> }

\* the frame shown holds the present table (the table only grows)
ShownIsCurrent == Len(dashboard_df.rows) = Len(store) /\ Len(store) > 0

\* C14: in the normalized dataset every free-text field is never null, and
\* holds the literal "Unknown" where the source value is missing (the stored
\* text where it is present); a free-text cell missing in an upload is stored
\* as missing.
C14_MissingTextIsUnknown ==
    /\ \A n \in 1..Len(dashboard_df.rows) : \A fc \in FreeTextFields :
          dashboard_df.rows[n][fc[2]].k # "nan"
    /\ \A n \in 1..Len(cache_data.value.rows) : \A fc \in FreeTextFields :
          cache_data.value.rows[n][fc[2]].k # "nan"
    /\ ShownIsCurrent =>
          \A n \in 1..Len(store) : \A fc \in FreeTextFields :
             dashboard_df.rows[n][fc[2]] =
                IF store[n][fc[1]].k = "nan" THEN UnknownLabel ELSE store[n][fc[1]]
    /\ records # << >> =>
          \A n \in 1..Len(records) : \A fc \in FreeTextFields :
             (fc[2] \notin DOMAIN UploadedRows[n] \/ UploadedRows[n][fc[2]].k = "nan")
                => records[n][fc[1]].k = "nan"

\* the page shows an ingested row whose district was missing as "Unknown"
C14_Witness ==
    /\ pc = "idle"
    /\ uploads > 0
    /\ ShownIsCurrent
    /\ store[Len(store)].school_district.k = "nan"
    /\ store[Len(store)].school_address.k = "nan"
    /\ dashboard_df.rows[Len(store)]["School District"] = UnknownLabel
    /\ dashboard_df.rows[Len(store)]["School Address"] = UnknownLabel

\* process_uploaded_file left the preparation of the records by an exception
PreparationFailed ==
    /\ pc = "done"
    /\ result = FALSE
    /\ report.error = "exception"
    /\ report.total # -1
    /\ inserts = << >>

\* C15: normalizing a raw row (to_bool, to_int, the record construction of
\* process_uploaded_file) never raises, whatever the raw values, infinite
\* numeric text and absent columns included: every field of the record is a
\* value or the unknown marker.
C15_NormalizingNeverRaises ==
    /\ ~PreparationFailed
    /\ Reading =>
          \A n \in 1..Len(new_data.rows) : \A f \in DOMAIN Record(new_data.rows[n]) :
             Record(new_data.rows[n])[f].k \in {"nan", "bool", "int", "float", "str"}

\* the fields of the table's schema that come from the columns of a file
SchemaFields == DOMAIN column_mapping

\* record is what the claim stores for row: every field of the schema, the
\* missing marker where the file has no such column
CarriesEveryField(record, row) ==
    /\ DOMAIN record = SchemaFields
    /\ \A f \in SchemaFields :
          column_mapping[f] \notin DOMAIN row => record[f] = None

\* C16: when batches with different column sets are ingested (A lacks
\* County, B lacks Email), the records of both carry both fields, the field
\* of the lacking column holding the missing marker in every row of that
\* batch, and no column of the schema present in a batch is lost.
C16_DifferentColumnSetsReconciled ==
    /\ uploaded_file.data \in {BatchA, BatchB} => ~PreparationFailed
    /\ (pc = "done" /\ result = TRUE) =>
          \A n \in 1..Len(UploadedRows) :
             /\ CarriesEveryField(Appended[n], new_data.rows[n])
             /\ \A fc \in FreeTextFields :
                   (fc[2] \in DOMAIN UploadedRows[n] /\ UploadedRows[n][fc[2]].k # "nan")
                      => Appended[n][fc[1]] = S(PyStr(UploadedRows[n][fc[2]]))
    /\ \A n \in 1..Len(store) :
          {"county", "email"} \subseteq DOMAIN store[n]

\* the file lacking Email was ingested after the file lacking County: the
\* table holds the rows of A with county missing and email set, and the rows
\* of B with email missing and county set
C16_Witness ==
    /\ pc = "done"
    /\ result = TRUE
    /\ uploaded_file.data = BatchB
    /\ Len(store) >= 4
    /\ \A n \in (Len(store) - 3)..(Len(store) - 2) :
          store[n].county = None /\ store[n].email # None
    /\ \A n \in (Len(store) - 1)..Len(store) :
          store[n].email = None /\ store[n].county # None

\* process_uploaded_file returns True to the page in this step
SuccessReturns == pc = "done" /\ result = TRUE /\ pc' = "idle"

\* C17: after every ingest that reports success the cached dataset is
\* invalidated and the dataset is reloaded from the store before it is shown
\* again: the frame shown next is what load_data reads from the table as it
\* is after the ingest (with the new rows when the select returns), never the
\* frame cached before.
C17_ReloadAfterSuccessfulIngest ==
    [][SuccessReturns =>
          /\ \E select_ok \in BOOLEAN :
                /\ dashboard_df' = load_data(store', select_ok)
                /\ cache_data' = [valid |-> TRUE, value |-> load_data(store', select_ok)]
          /\ Len(dashboard_df'.rows) \in {0, Len(store')}]_vars

\* a file was ingested into a table that held a row, the page having cached
\* the one-row dataset: the page now shows the table with the new row
C17_Witness ==
    /\ pc = "idle"
    /\ processing_complete
    /\ uploads = 1
    /\ Len(store) = 2
    /\ dashboard_df = load_data(store, TRUE)
    /\ Len(dashboard_df.rows) = 2

\* the calls made for the row of index n
CallsOf(n) == { c \in 1..Len(calls) : calls[c].idx = n }

\* all four address cells of the row are missing
BlankRow(row) ==
    \A col \in {"School Address", "City", "State", "Zip"} : RowGet(row, col).k = "nan"

\* C18: during ingestion every row that does not already have both
\* coordinates gets exactly one geocoder call, also when all its address
\* fields are blank; the calls are made one after the other in row order,
\* each having returned before the next row is taken.
C18_OneCallPerRowInOrder ==
    Reading =>
       /\ \A n \in 1..idx :
             Cardinality(CallsOf(n - 1)) = IF HasBoth(UploadedRows[n]) THEN 0 ELSE 1
       /\ \A c \in 1..Len(calls) : calls[c].idx < idx
       /\ \A c, d \in 1..Len(calls) : c < d => calls[c].idx < calls[d].idx
       /\ (Len(calls) > 0 /\ pc = "geocode") =>
             /\ last_call.outcome \in Responses
             /\ {"country", "format", "addressdetails", "limit"} \subseteq last_call.params
             /\ BlankRow(UploadedRows[idx]) =>
                   last_call.params = {"country", "format", "addressdetails", "limit"}

\* the loop has just made the call of the row with the blank address, the
\* second of the three-row file, after skipping the first
C18_Witness ==
    /\ pc = "geocode"
    /\ UploadedRows = ScenarioRows
    /\ idx = 2
    /\ BlankRow(UploadedRows[2])
    /\ Len(calls) = 1
    /\ calls[1].idx = 1
    /\ last_call.outcome \in Responses

\* the number of insert calls the claim gives for n records
CeilDiv(n, d) == (n + d - 1) \div d

\* the k-th block of 100 of the record list
Block(k) == SubSeq(records, (k - 1) * 100 + 1, IF k * 100 < Len(records) THEN k * 100
                                                ELSE Len(records))

\* C19: appending N records issues ceil(N/100) insert calls; each carries at
\* most 100 records, and the calls in order are the consecutive blocks of
\* the record list in its order: no record is sent twice or not at all.
C19_InsertsPartitionTheRecords ==
    /\ \A k \in 1..Len(inserts) :
          /\ Len(inserts[k].batch) >= 1
          /\ Len(inserts[k].batch) <= 100
          /\ inserts[k].batch = Block(k)
    /\ Len(inserts) <= CeilDiv(Len(records), 100)
    /\ (pc = "done" /\ result = TRUE) =>
          /\ Len(inserts) = CeilDiv(Len(UploadedRows), 100)
          /\ Len(records) = Len(UploadedRows)
          /\ \A n \in 1..Len(records) :
                inserts[CeilDiv(n, 100)].batch[n - (CeilDiv(n, 100) - 1) * 100] = records[n]

\* the large file was appended in three calls: 100, 100 and the rest
C19_Witness ==
    /\ pc = "done"
    /\ result = TRUE
    /\ Len(records) = LargeRows
    /\ Len(inserts) = 3
    /\ Len(inserts[1].batch) = 100
    /\ Len(inserts[2].batch) = 100
    /\ Len(inserts[3].batch) = LargeRows - 200

\* the script is in its loop or has left it at the end
InLoop == pc = "loop" \/ (pc = "exit" /\ idx = Len(df.rows) /\ Len(df.rows) > 0 /\ idx > 0)

\* the rows the loop has processed whose cells are not in the file on disk
Unsaved == { n \in 1..idx : csv_file.rows[n] # df.rows[n] }

\* C20: the flat-file run checkpoints every 50 rows: when the loop has
\* processed a row whose position is a multiple of 50 the whole frame is in
\* the file, so fewer than 50 processed rows are ever unsaved, and after the
\* last row the final save leaves the whole frame in the file.
C20_CheckpointEveryFiftyRows ==
    /\ (pc = "loop" /\ idx > 0 /\ idx % 50 = 0) => csv_file = df
    /\ pc = "loop" => Cardinality(Unsaved) < 50
    /\ (pc = "exit" /\ InLoop) => csv_file = df


\* fraction f is at most fraction g
AtMost(f, g) == f.num * g.den <= g.num * f.den

\* the geocoding loop of the running call has ended
GeocodingComplete == pc = "insert" \/ (pc = "done" /\ report.total # -1)

\* the status line shows row n of the batch and the running success count
ShowsRowAndCount(n) ==
    /\ status_text.text = "row"
    /\ status_text.row = n
    /\ status_text.total = Len(new_data.rows)
    /\ "geocoded" \in DOMAIN status_text
    /\ status_text.geocoded = successful_geocodes

\* C21: while a batch is geocoded, progress is reported for every row,
\* skipped rows included, as row index / total together with the running
\* success count; the fraction reported is in (0,1], never decreases, and is
\* 1 when geocoding completes.
C21_ProgressReportedForEveryRow ==
    /\ pc = "geocode" =>
          /\ Len(progress_bar) = idx + 1
          /\ \A n \in 1..idx : progress_bar[n + 1] = Fraction(n, Len(new_data.rows))
          /\ idx > 0 => ShowsRowAndCount(idx)
    /\ \A n \in 2..Len(progress_bar) :
          /\ ~AtMost(progress_bar[n], Fraction(0, 1))
          /\ AtMost(progress_bar[n], Fraction(1, 1))
          /\ AtMost(progress_bar[n - 1], progress_bar[n])
    /\ GeocodingComplete =>
          /\ progress_bar[Len(progress_bar)] = Fraction(1, 1)
          /\ status_text = CompleteText(successful_geocodes, Len(new_data.rows))

\* the rows of the frame shown whose returning-teacher flag is v
WithFlag(v) ==
    { n \in 1..Len(filtered_df.rows) : filtered_df.rows[n]["Returning Teacher"] = v }

\* the rows of the frame loaded that the filters other than the radio keep
Countable == SelectSeq(dashboard_df.rows, LAMBDA row : notna(row["Total Students"]))

\* C22: in the reporting of the dashboard the returning-teacher flag stays
\* three-valued: the KPI "Returning Teachers" and its slice of the pie count
\* the records whose flag is true, the KPI "New Teachers" and its slice the
\* records whose flag is false, so that a record whose flag is unknown is in
\* neither; "Returning Only" shows exactly the records whose flag is true
\* and "New Only" exactly those whose flag is false.
C22_ReturningFlagThreeValued ==
    /\ returning_teachers = Cardinality(WithFlag(B(TRUE)))
    /\ new_teachers = Cardinality(WithFlag(B(FALSE)))
    /\ returning_filter = "Returning Only" =>
          filtered_df.rows = SelectSeq(Countable, LAMBDA row : row["Returning Teacher"] = B(TRUE))
    /\ returning_filter = "New Only" =>
          filtered_df.rows = SelectSeq(Countable, LAMBDA row : row["Returning Teacher"] = B(FALSE))

\* the first run went through its loop and made its final save
FirstSaved == pc = "exit" /\ idx = Len(df.rows) /\ idx > 0

\* the second run went through its loop and made its final save
SecondSaved ==
    other_run.pc = "exit" /\ other_run.idx = Len(other_run.df.rows) /\ other_run.idx > 0

\* row n has coordinates in the frame of the first run and none in the file
LostUpdate(n) ==
    /\ HasBoth(df.rows[n])
    /\ ~HasBoth(pre_csv.rows[n])
    /\ ~HasBoth(csv_file.rows[n])

\* C23: two runs that execute concurrently on the flat file each read the
\* whole file, change their copy and write the whole file: once both have
\* made their final save the file is the copy of one of them, whole, and
\* nothing of the other's that its own copy lacks (neither run ends in an
\* error); so the later save overwrites the earlier one.
C23_LaterSaveOverwritesEarlier ==
    /\ pc # "crash"
    /\ other_run.pc # "crash"
    /\ (FirstSaved /\ SecondSaved) => csv_file \in { df, other_run.df }
    /\ (FirstSaved /\ other_run.pc \in {"main", "exit"} /\ ~SecondSaved) => csv_file = df
    /\ (SecondSaved /\ pc \in {"main", "confirm", "exit"} /\ ~FirstSaved) =>
          csv_file = other_run.df

\* both runs have finished without error; the first had geocoded and saved
\* a row, and the file, written last by the second, has no coordinates for
\* it
C23_Witness ==
    /\ FirstSaved
    /\ SecondSaved
    /\ csv_file = other_run.df
    /\ \E n \in 1..Len(df.rows) : LostUpdate(n)

\* the script finishes in this step, the operator not having declined
FinishesUndeclined == pc \in {"main", "loop"} /\ pc' = "exit"

\* C24: in a run of the batch script that the operator does not decline,
\* every row of the file that lacks latitude or longitude has received a
\* geocode attempt when the script finishes, whatever coordinates the rows
\* of the file have or lack.
C24_EveryIncompleteRowAttempted ==
    [][FinishesUndeclined =>
          \A n \in 1..Len(pre_csv.rows) :
             ~HasBoth(pre_csv.rows[n]) => Invoked(n - 1)]_vars

RECURSIVE Inserted(_)
\* the number of records in the first k insert calls that succeeded
Inserted(k) ==
    IF k = 0 THEN 0
    ELSE Inserted(k - 1) + (IF inserts[k].ok THEN Len(inserts[k].batch) ELSE 0)

\* C25: upload_to_supabase attempts every sub-batch exactly once, even
\* after an earlier one failed: when it returns the insert calls are the
\* consecutive blocks of the record list, uploaded + failed is the number
\* of records, uploaded is the total size of the sub-batches whose insert
\* succeeded, and the result is True exactly when no sub-batch failed.
C25_EverySubBatchAttemptedOnce ==
    pc = "returned" =>
       /\ Len(inserts) = CeilDiv(Len(records), batch_size)
       /\ \A k \in 1..Len(inserts) : inserts[k].batch = Block(k)
       /\ uploaded + failed = Len(records)
       /\ uploaded = Inserted(Len(inserts))
       /\ Len(store) = Len(pre_store) + uploaded
       /\ (result = TRUE) <=> (\A k \in 1..Len(inserts) : inserts[k].ok)
       /\ result \in BOOLEAN

\* the function has returned False on three sub-batches: the first failed,
\* the second and the third were attempted all the same and went in
C25_Witness ==
    /\ pc = "returned"
    /\ Len(inserts) = 3
    /\ ~inserts[1].ok
    /\ inserts[2].ok
    /\ inserts[3].ok
    /\ uploaded = Len(records) - batch_size
    /\ result = FALSE

\* a step of the page as to its flag processing_complete
FlagStep ==
    /\ (~processing_complete /\ processing_complete') => (pc = "done" /\ result = TRUE)
    /\ (pc = "done" /\ result = TRUE) => processing_complete'
    /\ (pc = "done" /\ result = FALSE) => ~processing_complete'
    /\ (processing_complete /\ ~processing_complete') =>
          \E select_ok \in BOOLEAN : UploadAnother(select_ok)
    /\ processing_complete =>
          /\ pc = "idle"
          /\ pc' = "idle"
          /\ store' = store
          /\ uploads' = uploads
    /\ (pc = "idle" /\ pc' = "idle") => store' = store

\* C26: processing_complete is false initially; it becomes true only
\* directly after a call of process_uploaded_file that returned True, and
\* false again only through the button "Upload Another File"; while it is
\* true no file is processed and the table does not change, so that the
\* reruns that follow a press of the process button do not ingest the file
\* again; a failed ingest leaves the flag false.
C26_FlagLifecycle ==
    /\ ~processing_complete
    /\ [][FlagStep]_vars

\* the flag was set by a first ingest, cleared with the button, and is set
\* again by the ingest of a second file
C26_Witness ==
    /\ processing_complete
    /\ uploads = 2
    /\ pc = "idle"
    /\ Len(store) >= 2

\* what lies past the gate: the table, the cache of load_data, the frames of
\* the page, the file being processed and what was sent of it
PastTheGate ==
    << store, cache_data, dashboard_df, filtered_df, uploaded_file, new_data, records,
       inserts, processing_complete >>

\* a step of a session as to its password gate
GateStep ==
    /\ ~check_password(session_state') =>
          /\ UNCHANGED PastTheGate
          /\ pc' \notin {"idle", "geocode", "insert", "done"}
    /\ (~check_password(session_state) /\ check_password(session_state')) =>
          /\ "password" \in DOMAIN session_state
          /\ session_state["password"] = ConfiguredPassword
    /\ ("password" \in DOMAIN session_state
          /\ session_state["password"] = ConfiguredPassword
          /\ session_state' # session_state) =>
          /\ check_password(session_state')
          /\ "password" \notin DOMAIN session_state'
    /\ check_password(session_state') => "password" \notin DOMAIN session_state'

\* C27: in every session nothing past the password gate (the store client,
\* load_data, ingestion, rendering, export) executes unless password_correct
\* is true; password_correct becomes true only when the password entered
\* equals the configured one, and on a correct entry the password entered
\* is removed from the session state.
C27_NothingPastTheGate ==
    /\ ~check_password(session_state)
    /\ [][GateStep]_vars

\* the configured password was entered: password_correct is true, the
\* password is no longer in the session state, and the page has loaded and
\* shows the table
C27_Witness ==
    /\ pc = "idle"
    /\ uploads = 0
    /\ session_state["password_correct"]
    /\ "password" \notin DOMAIN session_state
    /\ cache_data.valid
    /\ Len(dashboard_df.rows) = 1

\* the calls of the run that found the address
FoundCalls == { c \in 1..Len(calls) : Found(calls[c].ret) }

\* the rows the file held with both coordinates when the script began
ArrivedGeocoded == { n \in 1..Len(pre_csv.rows) : HasBoth(pre_csv.rows[n]) }

\* C28: when the loop of the batch geocoding script completes, successful +
\* failed is the number of rows of the file: successful counts the rows
\* skipped as already geocoded and the rows newly geocoded, failed the rows
\* whose geocode attempt returned not-found (and while the loop runs the two
\* add up to the rows processed).
C28_CountsAddUpToRows ==
    /\ pc = "loop" => successful + failed = idx
    /\ FirstSaved =>
          /\ successful + failed = Len(pre_csv.rows)
          /\ successful = Cardinality(ArrivedGeocoded) + Cardinality(FoundCalls)
          /\ failed = Len(calls) - Cardinality(FoundCalls)

\* the loop has completed on the three-row file: one row skipped, one found,
\* one not found
C28_Witness ==
    /\ FirstSaved
    /\ Len(pre_csv.rows) = 3
    /\ Cardinality(ArrivedGeocoded) = 1
    /\ successful = 2
    /\ failed = 1
====
